---- MODULE Spec2Model ----
(***************************************************************************)
(* ParkWatch: the flood-zone polygon resolver (frontend/api/               *)
(* fema-floodzone.js), modelled as a state machine.                        *)
(*                                                                         *)
(* Two revisions of the handler are modelled, selected by `impl`:          *)
(*   "ladder" : src/unnamed/part_007 lines 1-151, the progressive          *)
(*              300 m / 1 km / 3 km envelope ladder with a meta object;    *)
(*   "single" : src/frontend/api/fema-floodzone.js, one 300 m envelope     *)
(*              fallback and no meta object.                               *)
(*                                                                         *)
(* One handler invocation is modelled.  Its code runs synchronously from   *)
(* one await to the next, so there is one action per resumption:           *)
(*   Invoke        the request arrives; runs to the first `await fetch`    *)
(*   FetchResolves `await fetch(url)` yields a response with a status      *)
(*   FetchRejects  `await fetch(url)` fails at the network level           *)
(*   TextSettles   `await safeText(r)` yields (single revision only)       *)
(*   JsonResolves  `r.json()` yields the parsed body                       *)
(*   JsonRejects   `r.json()` fails (unparsable body)                      *)
(*                                                                         *)
(* Besides one invocation (Spec, FairSpec) the module holds two             *)
(* invocations interleaved at their awaits (PairSpec), metersToDeg on its   *)
(* own (ConvSpec) and the overlay effect of src/frontend/src/MapView.jsx    *)
(* (MapSpec).                                                               *)
(*                                                                         *)
(* JavaScript numbers are records [kind, v]: kind "fin" with the integer   *)
(* value v, or "nan", "inf", "-inf".  Coordinates are integers of an       *)
(* arbitrary fixed-point grid; the claims settled here depend only on the  *)
(* order of the squared distances.                                         *)
(***************************************************************************)
EXTENDS Integers, Sequences, FiniteSets, TLC

\* ------------------------------------------------------------------------
\* Bounds of the model
\* ------------------------------------------------------------------------
\* Largest number of candidates in one upstream response.
MaxCands == 2
\* Largest number of flood-zone requests the map view issues.
MaxRuns == 3

\* ------------------------------------------------------------------------
\* The state of one handler invocation and of its outbound queries
\* ------------------------------------------------------------------------
VARIABLES
  impl,      \* the revision of the handler that is deployed
  pc,        \* where the invocation stands: "idle", "fetch", "json", "text", "done"
  req,       \* the request: method and raw query parameters
  lat, lon,  \* const lat / const lon of the handler
  step,      \* 0 during the point query, i during the query of the i-th radius
  fc,        \* the body parsed last (intersectsGJ / envelopeGJ)
  best,      \* let best
  inflight,  \* the outbound queries awaiting their outcome (indices of issued)
  issued,    \* every outbound query so far, in order
  received,  \* the outcome of every settled outbound query, in order
  res        \* the response object: status, body, headers, number of sends

\* A second invocation of the handler in the same process.  One invocation
\* runs at a time; the other is suspended at an await (or has not started,
\* or has returned) and its locals are kept here.
VARIABLES
  other

\* metersToDeg taken on its own: the argument, the latitude and the result.
VARIABLES
  calc

\* MapView (src/frontend/src/MapView.jsx): the overlay state and effect.
VARIABLES
  selectedPark,       \* the selectedPark prop
  overlayGeoJson,     \* const [overlayGeoJson, setOverlayGeoJson] = useState(null)
  activeRequestId,    \* activeRequestIdRef.current
  runs                \* the runs of the effect: fetchOverlay and its closure

\* floodTier taken on its own: the argument and what each copy returns.
VARIABLES
  tier

\* The front end: App and the MapView it mounts, in the revision that
\* loads from Neon (part_002 with the react-leaflet MapView of part_005)
\* and in the earlier one that loads from Supabase (src/frontend/src/App.jsx
\* with the Leaflet MapView of part_006).
VARIABLES
  app,                \* the revision of the front end: "restart" or "legacy"
  parks,              \* const [parks, setParks] = useState([])
  selection,          \* selectedId (restart) / selectedPark (legacy); "null" is null
  selectionSource,    \* "map", "list" or "null"
  sortMode,           \* const [sortMode, setSortMode] = useState("alpha")
  loading,            \* const [loading, setLoading] = useState(true)
  error,              \* const [error, setError] = useState(null); TRUE is the message
  fetchParks,         \* the awaited query: "pending", "resolved" or "rejected"
  committed,          \* the state the last commit rendered
  effects,            \* the effects of the last commit that have not run yet
  map,                \* the Leaflet map: its instance, centre and zoom
  didFit,             \* didFit.current of FitFloridaOnce
  markerRefs,         \* markerRefs.current: the style of the marker of each id
  firstSelectionRef,  \* firstSelectionRef.current
  calls,              \* how often setView, flyTo and scrollIntoView were called
  trace               \* the user's events so far and the changes of the selection

handlerVars == <<impl, pc, req, lat, lon, step, fc, best, inflight, issued, received, res>>
mapViewVars == <<selectedPark, overlayGeoJson, activeRequestId, runs>>
appStateVars == <<parks, selection, selectionSource, sortMode, loading, error>>
appVars == <<app, appStateVars, fetchParks, committed, effects, map, didFit, markerRefs,
             firstSelectionRef, calls, trace>>
vars == <<handlerVars, other, calc, mapViewVars, tier, appVars>>

\* What a step of one invocation of the handler leaves alone.
notHandler == <<other, calc, mapViewVars, tier, appVars>>

\* What the other parts of the program leave alone.
notPair == <<calc, mapViewVars, tier, appVars>>
notCalc == <<handlerVars, other, mapViewVars, tier, appVars>>
notMapView == <<handlerVars, other, calc, tier, appVars>>
notTier == <<handlerVars, other, calc, mapViewVars, appVars>>
notApp == <<handlerVars, other, calc, mapViewVars, tier>>

\* ------------------------------------------------------------------------
\* JavaScript numbers
\* ------------------------------------------------------------------------
Fin(n) == [kind |-> "fin", v |-> n]
NaN == [kind |-> "nan", v |-> 0]
PosInf == [kind |-> "inf", v |-> 0]
NegInf == [kind |-> "-inf", v |-> 0]

\* Number.isFinite(x)
IsFinite(x) == x.kind = "fin"

\* a < b on JavaScript numbers (false whenever an operand is NaN)
Lt(a, b) ==
  CASE a.kind = "nan" \/ b.kind = "nan" -> FALSE
    [] a.kind = "fin" /\ b.kind = "fin" -> a.v < b.v
    [] a.kind = "-inf" -> b.kind # "-inf"
    [] a.kind = "inf" -> FALSE
    [] OTHER -> b.kind = "inf"

\* ------------------------------------------------------------------------
\* Number(req.query.x): a query parameter is absent (undefined) or a string,
\* here a sequence of one-character strings.
\* ------------------------------------------------------------------------
Undefined == [present |-> FALSE, chars |-> <<>>]
Str(s) == [present |-> TRUE, chars |-> s]

Digits == <<"0", "1", "2", "3", "4", "5", "6", "7", "8", "9">>
IsDigit(c) == \E i \in 1..10 : Digits[i] = c
DigitVal(c) == (CHOOSE i \in 1..10 : Digits[i] = c) - 1
IsSpace(c) == c = " "

RECURSIVE TrimLeft(_)
TrimLeft(s) == IF s # <<>> /\ IsSpace(Head(s)) THEN TrimLeft(Tail(s)) ELSE s

RECURSIVE TrimRight(_)
TrimRight(s) ==
  IF s # <<>> /\ IsSpace(s[Len(s)]) THEN TrimRight(SubSeq(s, 1, Len(s) - 1)) ELSE s

AllDigits(s) == s # <<>> /\ \A i \in 1..Len(s) : IsDigit(s[i])

RECURSIVE DecimalValue(_)
DecimalValue(s) ==
  IF s = <<>> THEN 0 ELSE 10 * DecimalValue(SubSeq(s, 1, Len(s) - 1)) + DigitVal(s[Len(s)])

InfinityLiteral == <<"I", "n", "f", "i", "n", "i", "t", "y">>

\* StringToNumber of ECMAScript, on the strings of the model (no fraction,
\* exponent or radix prefix): surrounding white space is stripped, the empty
\* string is 0, an optionally signed decimal integer or Infinity is its
\* value, anything else is NaN.
StringToNumber(s) ==
  LET t == TrimRight(TrimLeft(s))
      signed == t # <<>> /\ Head(t) \in {"+", "-"}
      neg == t # <<>> /\ Head(t) = "-"
      body == IF signed THEN Tail(t) ELSE t
  IN  CASE t = <<>> -> Fin(0)
        [] body = InfinityLiteral -> IF neg THEN NegInf ELSE PosInf
        [] AllDigits(body) -> Fin(IF neg THEN 0 - DecimalValue(body) ELSE DecimalValue(body))
        [] OTHER -> NaN

\* Number(v)
Number(v) == IF v.present THEN StringToNumber(v.chars) ELSE NaN

\* ------------------------------------------------------------------------
\* Number(x) of a field of a database row: the field is missing (undefined),
\* NULL (null), a string or a number.
\* ------------------------------------------------------------------------
JsUndefined == [type |-> "undefined", chars |-> <<>>, num |-> NaN]
JsNull == [type |-> "null", chars |-> <<>>, num |-> NaN]
JsString(s) == [type |-> "string", chars |-> s, num |-> NaN]
JsNumber(x) == [type |-> "number", chars |-> <<>>, num |-> x]

\* ToNumber of ECMAScript: undefined is NaN, null is +0, a string goes
\* through StringToNumber, a number is itself.
ToNumber(v) ==
  CASE v.type = "undefined" -> NaN
    [] v.type = "null" -> Fin(0)
    [] v.type = "string" -> StringToNumber(v.chars)
    [] OTHER -> v.num

\* a >= b on JavaScript numbers (false whenever an operand is NaN)
Ge(a, b) ==
  CASE a.kind = "nan" \/ b.kind = "nan" -> FALSE
    [] OTHER -> ~Lt(a, b)

\* ------------------------------------------------------------------------
\* GeoJSON features.  A geometry holds the rings of a Polygon in `rings`
\* and the polygons (sequences of rings) of a MultiPolygon in `polys`; a
\* ring is a sequence of vertices <<x, y>> = <<lon, lat>>.
\* ------------------------------------------------------------------------
NoGeometry == [present |-> FALSE, type |-> "", rings |-> <<>>, polys |-> <<>>]
Polygon(rings) == [present |-> TRUE, type |-> "Polygon", rings |-> rings, polys |-> <<>>]
MultiPolygon(polys) == [present |-> TRUE, type |-> "MultiPolygon", rings |-> <<>>, polys |-> polys]
PointGeometry == [present |-> TRUE, type |-> "Point", rings |-> <<>>, polys |-> <<>>]

Feature(id, geom) == [id |-> id, geometry |-> geom]
\* null, as a value of the same shape as a feature
Null == [id |-> "null", geometry |-> NoGeometry]

V(x, y) == <<Fin(x), Fin(y)>>

\* The features the upstream service can return.
FeaturePool ==
  << Feature("A", Polygon(<< <<V(0, 0), V(4, 0), V(4, 4), V(0, 0)>> >>)),
     Feature("B", Polygon(<< <<V(3, 0), V(5, 0), V(5, 2), V(3, 0)>> >>)),
     Feature("C", Polygon(<< <<V(0, 3), V(0, 5), V(2, 5), V(0, 3)>> >>)),
     Feature("M", MultiPolygon(<< << <<V(6, 6), V(7, 6), V(7, 7), V(6, 6)>> >>,
                                  << <<V(9, 9), V(9, 8), V(8, 9), V(9, 9)>>,
                                     <<(<<NaN, Fin(1)>>), V(1, 1), V(1, 3)>> >> >>)),
     Feature("N", NoGeometry),
     Feature("P", PointGeometry),
     Feature("E", Polygon(<< <<(<<NaN, Fin(0)>>), (<<Fin(0), PosInf>>)>> >>)) >>

\* Mutant of Flat: only the first polygon of a MultiPolygon is kept.
Flat_FirstPolygon(polys) == IF polys = <<>> THEN <<>> ELSE Head(polys)

\* Array.prototype.flat() on the polygons of a MultiPolygon: one level.
RECURSIVE Flat(_)
Flat(polys) == IF polys = <<>> THEN <<>> ELSE Head(polys) \o Flat(Tail(polys))

\* The inner loop of featureScoreNearestVertex: the vertices of one ring.
RECURSIVE ringScore(_, _, _, _)
ringScore(ring, bestD, lon0, lat0) ==
  IF ring = <<>> THEN bestD
  ELSE LET pt == Head(ring)
           x == pt[1]
           y == pt[2]
       IN  IF ~IsFinite(x) \/ ~IsFinite(y) THEN ringScore(Tail(ring), bestD, lon0, lat0)
           ELSE LET dx == x.v - lon0.v
                    dy == y.v - lat0.v
                    d2 == Fin(dx * dx + dy * dy)
                IN  ringScore(Tail(ring), IF Lt(d2, bestD) THEN d2 ELSE bestD, lon0, lat0)

\* The outer loop of featureScoreNearestVertex: the rings.
RECURSIVE coordsScore(_, _, _, _)
coordsScore(coords, bestD, lon0, lat0) ==
  IF coords = <<>> THEN bestD
  ELSE coordsScore(Tail(coords), ringScore(Head(coords), bestD, lon0, lat0), lon0, lat0)

\* featureScoreNearestVertex(feature, lon0, lat0): the least squared distance
\* from the query point to a vertex with finite coordinates, +Infinity when
\* there is none.
featureScoreNearestVertex(feature, lon0, lat0) ==
  LET geom == feature.geometry
  IN  IF ~geom.present THEN PosInf
      ELSE LET hasCoords == geom.type \in {"Polygon", "MultiPolygon"}
               coords == IF geom.type = "Polygon" THEN geom.rings
                         ELSE IF geom.type = "MultiPolygon" THEN Flat(geom.polys)
                         ELSE <<>>
           IN  IF ~hasCoords \/ Len(coords) = 0 THEN PosInf
               ELSE coordsScore(coords, PosInf, lon0, lat0)

\* A parsed upstream body: `features` is an array or it is not there.
FC(feats) == [hasFeatures |-> TRUE, features |-> feats]
NoFeaturesBody == [hasFeatures |-> FALSE, features |-> <<>>]

\* Mutant of chooseLoop: the first candidate with a finite score is kept.
RECURSIVE chooseLoop_FirstScorable(_, _, _, _, _, _)
chooseLoop_FirstScorable(feats, i, bestF, bestScore, lon0, lat0) ==
  IF i > Len(feats) THEN bestF
  ELSE LET score == featureScoreNearestVertex(feats[i], lon0, lat0)
       IN  IF Lt(score, PosInf) THEN feats[i]
           ELSE chooseLoop_FirstScorable(feats, i + 1, bestF, bestScore, lon0, lat0)

\* Mutant of chooseLoop: `score <= bestScore`, the last of equals is kept.
RECURSIVE chooseLoop_LastOfEquals(_, _, _, _, _, _)
chooseLoop_LastOfEquals(feats, i, bestF, bestScore, lon0, lat0) ==
  IF i > Len(feats) THEN bestF
  ELSE LET score == featureScoreNearestVertex(feats[i], lon0, lat0)
       IN  IF Lt(score, bestScore) \/ score = bestScore
           THEN chooseLoop_LastOfEquals(feats, i + 1, feats[i], score, lon0, lat0)
           ELSE chooseLoop_LastOfEquals(feats, i + 1, bestF, bestScore, lon0, lat0)

\* The loop of chooseBestFeature from index i on.
RECURSIVE chooseLoop(_, _, _, _, _, _)
chooseLoop(feats, i, bestF, bestScore, lon0, lat0) ==
  IF i > Len(feats) THEN bestF
  ELSE LET score == featureScoreNearestVertex(feats[i], lon0, lat0)
       IN  IF Lt(score, bestScore)
           THEN chooseLoop(feats, i + 1, feats[i], score, lon0, lat0)
           ELSE chooseLoop(feats, i + 1, bestF, bestScore, lon0, lat0)

\* Mutant of chooseBestFeature: only the first candidate is looked at.
chooseBestFeature_FirstOnly(gj, lon0, lat0) ==
  IF ~gj.hasFeatures \/ Len(gj.features) = 0 THEN Null
  ELSE chooseLoop(<<gj.features[1]>>, 1, Null, PosInf, lon0, lat0)

\* Mutant of chooseBestFeature: without a scorable candidate the first
\* candidate is returned.
chooseBestFeature_FirstIfNone(gj, lon0, lat0) ==
  IF ~gj.hasFeatures \/ Len(gj.features) = 0 THEN Null
  ELSE LET b == chooseLoop(gj.features, 1, Null, PosInf, lon0, lat0)
       IN  IF b.id = "null" THEN gj.features[1] ELSE b

\* chooseBestFeature(fc, lon0, lat0)
chooseBestFeature(gj, lon0, lat0) ==
  IF ~gj.hasFeatures \/ Len(gj.features) = 0 THEN Null
  ELSE chooseLoop(gj.features, 1, Null, PosInf, lon0, lat0)

\* `if (best)`: a feature is truthy, null is not.
Truthy(f) == f.id # "null"

\* Mutant of oneOrEmpty: every candidate of the answer is passed on.
oneOrEmpty_AllCandidates(b, meta) ==
  [type |-> "FeatureCollection",
   features |-> IF b.id # "null" THEN fc'.features ELSE <<>>,
   meta |-> meta]

\* oneOrEmpty(best, meta)
oneOrEmpty(bestF, meta) ==
  [type |-> "FeatureCollection",
   features |-> IF Truthy(bestF) THEN <<bestF>> ELSE <<>>,
   meta |-> meta]

\* The single revision returns no meta object.
NoMeta == [method |-> "absent"]

\* singleFeatureCollection(featureOrNull)
singleFeatureCollection(featureOrNull) ==
  IF ~Truthy(featureOrNull)
  THEN [type |-> "FeatureCollection", features |-> <<>>, meta |-> NoMeta]
  ELSE [type |-> "FeatureCollection", features |-> <<featureOrNull>>, meta |-> NoMeta]

\* ------------------------------------------------------------------------
\* The handler
\* ------------------------------------------------------------------------
Impls == {"ladder", "single"}

\* const CANDIDATES = 25
CANDIDATES == 25

\* const radiiMeters = [300, 1000, 3000]; the single revision has one
\* fallback of 300 m.
radiiMeters == <<300, 1000, 3000>>
singleRadii == <<300>>
Radii == IF impl = "ladder" THEN radiiMeters ELSE singleRadii

Methods == {"GET", "OPTIONS"}

\* The values of a lat / lon query parameter: absent, "", "x", "Infinity"
\* and " 1".
RawParams ==
  { Undefined, Str(<<>>), Str(<<"x">>), Str(InfinityLiteral), Str(<<" ", "1">>) }

\* Upstream HTTP statuses and error texts.
UpstreamStatuses == {200, 404, 503}
ErrorTexts == {"", "Service Unavailable", "null"}

\* r.ok
Ok(status) == status >= 200 /\ status <= 299

\* The candidate sequences an upstream answer can hold: up to MaxCands
\* distinct features of the pool, in any order.
PoolIdx == 1..Len(FeaturePool)
IdxSeqs ==
  UNION { { s \in [1..n -> PoolIdx] : \A i, j \in 1..n : i # j => s[i] # s[j] } :
          n \in 0..MaxCands }
CandidateSeqs == { [i \in 1..Len(s) |-> FeaturePool[s[i]]] : s \in IdxSeqs }
Bodies == {NoFeaturesBody} \cup { FC(c) : c \in CandidateSeqs }

NoBody == [empty |-> TRUE]

CorsHeaders ==
  { <<"Access-Control-Allow-Origin", "*">>,
    <<"Access-Control-Allow-Methods", "GET,OPTIONS">>,
    <<"Access-Control-Allow-Headers", "Content-Type">> }
CacheHeader == <<"Cache-Control", "public, s-maxage=86400, stale-while-revalidate=86400">>

\* ------------------------------------------------------------------------
\* Degrees.  Offsets and envelope coordinates are exact fractions
\* [num, den] in lowest terms with den > 0.
\* ------------------------------------------------------------------------
RECURSIVE GCD(_, _)
GCD(a, b) == IF b = 0 THEN a ELSE GCD(b, a % b)

Abs(n) == IF n < 0 THEN -n ELSE n

Rat(n, d) == LET g == GCD(Abs(n), d) IN [num |-> n \div g, den |-> d \div g]

RatAdd(a, b) == Rat(a.num * b.den + b.num * a.den, a.den * b.den)
RatSub(a, b) == Rat(a.num * b.den - b.num * a.den, a.den * b.den)
RatLe(a, b) == a.num * b.den <= b.num * a.den
RatLt(a, b) == a.num * b.den < b.num * a.den

\* The latitudes (whole degrees) the conversion is applied to.
Latitudes ==
  { -90, -80, -60, -45, -30, -1, 0, 1, 30, 45, 60, 70, 75, 78, 79, 80, 85, 89, 90,
    100, 180 }

\* Math.cos((lat * Math.PI) / 180), in thousandths, rounded to the nearest.
cosThousandths(l) ==
  CASE Abs(l) = 0 -> 1000  [] Abs(l) = 1 -> 1000  [] Abs(l) = 30 -> 866
    [] Abs(l) = 45 -> 707  [] Abs(l) = 60 -> 500  [] Abs(l) = 70 -> 342
    [] Abs(l) = 75 -> 259  [] Abs(l) = 78 -> 208  [] Abs(l) = 79 -> 191
    [] Abs(l) = 80 -> 174  [] Abs(l) = 85 -> 87   [] Abs(l) = 89 -> 17
    [] Abs(l) = 90 -> 0    [] Abs(l) = 100 -> -174 [] Abs(l) = 180 -> -1000

\* Mutant of metersToDeg: the guard is `cosLat > 0.1`.
metersToDeg_LowGuard(meters, lat0) ==
  LET degLat == Rat(meters, 111320)
      cosLat == cosThousandths(lat0.v)
      degLon == IF cosLat > 100 THEN Rat(degLat.num * 1000, degLat.den * cosLat) ELSE degLat
  IN  [degLat |-> degLat, degLon |-> degLon]

\* Mutant of metersToDeg: the offset stops growing at 1000 m.
metersToDeg_CappedOffset(meters, lat0) ==
  LET degLat == Rat(IF meters > 1000 THEN 1000 ELSE meters, 111320)
      cosLat == cosThousandths(lat0.v)
      degLon == IF cosLat > 200 THEN Rat(degLat.num * 1000, degLat.den * cosLat) ELSE degLat
  IN  [degLat |-> degLat, degLon |-> degLon]

\* metersToDeg(meters) around the latitude lat0:
\*   degLat = meters / 111320
\*   degLon = cosLat > 0.2 ? degLat / cosLat : degLat
metersToDeg(meters, lat0) ==
  LET degLat == Rat(meters, 111320)
      cosLat == cosThousandths(lat0.v)
      degLon == IF cosLat > 200 THEN Rat(degLat.num * 1000, degLat.den * cosLat) ELSE degLat
  IN  [degLat |-> degLat, degLon |-> degLon]

\* Mutant of buildQueryUrl: the envelope starts at the point instead of
\* lying around it.
buildQueryUrl_CornerEnvelope(k, lon0, lat0) ==
  LET d == metersToDeg(IF k = 0 THEN 0 ELSE Radii[k], lat0)
      x == Rat(lon0.v, 1)
      y == Rat(lat0.v, 1)
  IN  [f |-> "geojson", returnGeometry |-> "true", outSR |-> "4326", outFields |-> "*",
       resultRecordCount |-> CANDIDATES,
       geometryType |-> IF k = 0 THEN "esriGeometryPoint" ELSE "esriGeometryEnvelope",
       geometry |-> [coords |-> IF k = 0 THEN <<x, y>>
                                ELSE <<x, y, RatAdd(RatAdd(x, d.degLon), d.degLon),
                                       RatAdd(RatAdd(y, d.degLat), d.degLat)>>,
                     radius_m |-> IF k = 0 THEN 0 ELSE Radii[k]],
       inSR |-> "4326", spatialRel |-> "esriSpatialRelIntersects"]

\* buildQueryUrl(params) for the query of step k: the point query (k = 0),
\* geometry `${lon},${lat}`, or the envelope query of the k-th radius,
\* geometry `${xmin},${ymin},${xmax},${ymax}`.  radius_m is not part of the
\* URL: it notes the radius the envelope was built from (0 for the point).
buildQueryUrl(k, lon0, lat0) ==
  LET d == metersToDeg(IF k = 0 THEN 0 ELSE Radii[k], lat0)
      x == Rat(lon0.v, 1)
      y == Rat(lat0.v, 1)
      xmin == RatSub(x, d.degLon)
      xmax == RatAdd(x, d.degLon)
      ymin == RatSub(y, d.degLat)
      ymax == RatAdd(y, d.degLat)
  IN  [f |-> "geojson", returnGeometry |-> "true", outSR |-> "4326", outFields |-> "*",
       resultRecordCount |-> CANDIDATES,
       geometryType |-> IF k = 0 THEN "esriGeometryPoint" ELSE "esriGeometryEnvelope",
       geometry |-> [coords |-> IF k = 0 THEN <<x, y>> ELSE <<xmin, ymin, xmax, ymax>>,
                     radius_m |-> IF k = 0 THEN 0 ELSE Radii[k]],
       inSR |-> "4326", spatialRel |-> "esriSpatialRelIntersects"]

\* res.status(s).json(b)
Send(s, b) == [res EXCEPT !.status = s, !.body = b, !.sent = @ + 1]

\* What the log keeps of a settled query: how it ended, the status, whether
\* the body had no features array (n = -1), an empty one (n = 0) or one with
\* candidates (n = 1), and whether a candidate had a finite score.
Outcome(kind, status, body) ==
  [outcome |-> kind, status |-> status,
   n |-> IF ~body.hasFeatures THEN -1 ELSE IF Len(body.features) = 0 THEN 0 ELSE 1,
   scorable |-> \E i \in 1..Len(body.features) :
                  IsFinite(featureScoreNearestVertex(body.features[i], lon, lat))]

\* Mutant of Settled: the query is not awaited and stays in flight.
Settled_NotAwaited == inflight

\* The awaited query has settled.
Settled == inflight \ {Len(issued)}

\* Mutant of Catch: the failure is swallowed into an empty result.
Catch_Swallow(details) ==
  /\ res' = Send(200, oneOrEmpty(Null, [method |-> "none", reason |-> details.message]))
  /\ pc' = "done"

\* catch (err): 502 with the message of the error.
Catch(details) ==
  /\ res' = Send(502, [error |-> "FEMA query failed", details |-> details])
  /\ pc' = "done"

\* The locals of an invocation that has not started.
NotStarted ==
  [pc |-> "idle",
   req |-> [method |-> "", query |-> [lat |-> Undefined, lon |-> Undefined]],
   lat |-> NaN, lon |-> NaN, step |-> 0, fc |-> NoFeaturesBody, best |-> Null,
   inflight |-> {}, issued |-> <<>>, received |-> <<>>,
   res |-> [status |-> 0, body |-> NoBody, headers |-> {}, sent |-> 0]]

\* No conversion asked for.
NotAsked == [meters |-> 0, lat |-> Fin(0), asked |-> FALSE, done |-> FALSE,
             degLat |-> Rat(0, 1), degLon |-> Rat(0, 1)]

\* selectedPark = null; overlayGeoJson = null
NoPark == [id |-> "null", latitude |-> Undefined, longitude |-> Undefined]
NoOverlay == [hasFeatures |-> FALSE, features |-> <<>>, null |-> TRUE]

\* floodTier not called.
NoTier == [asked |-> FALSE, done |-> FALSE, value |-> JsUndefined,
           app |-> "", mapView |-> "", risk |-> ""]

\* The state App renders: its useState values.
AppState ==
  [parks |-> parks, selection |-> selection, selectionSource |-> selectionSource,
   sortMode |-> sortMode, loading |-> loading, error |-> error]

\* new L.Map centred on Florida at zoom 6 (centre to the whole degree).
Florida == [lat |-> Fin(28), lon |-> Fin(0 - 82)]
NoMap == [ready |-> FALSE, center |-> Florida, zoom |-> 6]

\* App of revision a after its first commit and the effects of it: the
\* initial useState values, MapView not mounted, fetchParks at its await.
AppStart(a) ==
  /\ app = a
  /\ parks = <<>>
  /\ selection = "null"
  /\ selectionSource = "null"
  /\ sortMode = "alpha"
  /\ loading = TRUE
  /\ error = FALSE
  /\ fetchParks = "pending"
  /\ committed = AppState
  /\ effects = <<>>
  /\ map = NoMap
  /\ didFit = FALSE
  /\ markerRefs = <<>>
  /\ firstSelectionRef = TRUE
  /\ calls = [setView |-> 0, flyTo |-> 0, scrollIntoView |-> 0]
  /\ trace = [events |-> 0, fromMap |-> 0, fromList |-> 0, changes |-> 0]

Idle ==
  /\ impl \in Impls
  /\ pc = "idle"
  /\ req = [method |-> "", query |-> [lat |-> Undefined, lon |-> Undefined]]
  /\ lat = NaN
  /\ lon = NaN
  /\ step = 0
  /\ fc = NoFeaturesBody
  /\ best = Null
  /\ inflight = {}
  /\ issued = <<>>
  /\ received = <<>>
  /\ res = [status |-> 0, body |-> NoBody, headers |-> {}, sent |-> 0]
  /\ other = NotStarted
  /\ calc = NotAsked
  /\ selectedPark = NoPark
  /\ overlayGeoJson = NoOverlay
  /\ activeRequestId = 0
  /\ runs = <<>>
  /\ tier = NoTier

Init == Idle /\ AppStart("restart")

\* handler(req, res) up to its first await: CORS headers, OPTIONS,
\* validation of lat / lon, Cache-Control, the point query.
Invoke_CacheBeforeValidation(m, q) ==
  /\ pc = "idle"
  /\ req' = [method |-> m, query |-> q]
  /\ UNCHANGED <<impl, step, fc, best, received>>
  /\ UNCHANGED notHandler
  /\ LET h == [res EXCEPT !.headers = CorsHeaders]
         la == Number(q.lat)
         lo == Number(q.lon)
     IN  IF m = "OPTIONS"
         THEN /\ res' = [h EXCEPT !.status = 204, !.sent = @ + 1]
              /\ pc' = "done"
              /\ UNCHANGED <<lat, lon, inflight, issued>>
         ELSE /\ lat' = la
              /\ lon' = lo
              /\ IF ~IsFinite(la) \/ ~IsFinite(lo)
                 THEN /\ res' = [h EXCEPT !.status = 400,
                                          !.headers = @ \cup {CacheHeader},
                                          !.body = [error |-> "Invalid lat/lon"],
                                          !.sent = @ + 1]
                      /\ pc' = "done"
                      /\ UNCHANGED <<inflight, issued>>
                 ELSE /\ res' = [h EXCEPT !.headers = @ \cup {CacheHeader}]
                      /\ issued' = Append(issued, buildQueryUrl(0, lo, la))
                      /\ inflight' = inflight \cup {Len(issued) + 1}
                      /\ pc' = "fetch"

Invoke(m, q) ==
  /\ pc = "idle"
  /\ req' = [method |-> m, query |-> q]
  /\ UNCHANGED <<impl, step, fc, best, received>>
  /\ UNCHANGED notHandler
  /\ LET h == [res EXCEPT !.headers = CorsHeaders]
         la == Number(q.lat)
         lo == Number(q.lon)
     IN  IF m = "OPTIONS"
         THEN /\ res' = [h EXCEPT !.status = 204, !.sent = @ + 1]
              /\ pc' = "done"
              /\ UNCHANGED <<lat, lon, inflight, issued>>
         ELSE /\ lat' = la
              /\ lon' = lo
              /\ IF ~IsFinite(la) \/ ~IsFinite(lo)
                 THEN /\ res' = [h EXCEPT !.status = 400,
                                          !.body = [error |-> "Invalid lat/lon"],
                                          !.sent = @ + 1]
                      /\ pc' = "done"
                      /\ UNCHANGED <<inflight, issued>>
                 ELSE /\ res' = [h EXCEPT !.headers = @ \cup {CacheHeader}]
                      /\ issued' = Append(issued, buildQueryUrl(0, lo, la))
                      /\ inflight' = inflight \cup {Len(issued) + 1}
                      /\ pc' = "fetch"

\* fetchGeoJson: `await fetch(url)` yields a response.  With r.ok the body
\* is read next; otherwise the ladder revision throws at once and the single
\* revision first awaits safeText(r).
FetchResolves(status) ==
  /\ pc = "fetch"
  /\ UNCHANGED <<impl, req, lat, lon, step, fc, best, issued>>
  /\ UNCHANGED notHandler
  /\ IF Ok(status)
     THEN /\ pc' = "json"
          /\ UNCHANGED <<inflight, received, res>>
     ELSE /\ received' = Append(received, Outcome("http_error", status, NoFeaturesBody))
          /\ IF impl = "ladder"
             THEN /\ inflight' = Settled
                  /\ Catch([message |-> "FEMA query failed", status |-> status, text |-> ""])
             ELSE /\ pc' = "text"
                  /\ UNCHANGED <<inflight, res>>

\* fetchGeoJson of the single revision: safeText(r) yields the text or null,
\* and the error is thrown.
TextSettles(text) ==
  /\ pc = "text"
  /\ UNCHANGED <<impl, req, lat, lon, step, fc, best, issued, received>>
  /\ UNCHANGED notHandler
  /\ inflight' = Settled
  /\ Catch([message |-> "FEMA query failed",
            status |-> received[Len(received)].status,
            text |-> IF text = "null" THEN "" ELSE text])

\* fetchGeoJson: `await fetch(url)` fails at the network level.
FetchRejects ==
  /\ pc = "fetch"
  /\ UNCHANGED <<impl, req, lat, lon, step, fc, best, issued>>
  /\ UNCHANGED notHandler
  /\ received' = Append(received, Outcome("network_error", 0, NoFeaturesBody))
  /\ inflight' = Settled
  /\ Catch([message |-> "fetch failed", status |-> 0, text |-> ""])

\* fetchGeoJson: r.json() fails on a body that is not JSON.
JsonRejects ==
  /\ pc = "json"
  /\ UNCHANGED <<impl, req, lat, lon, step, fc, best, issued>>
  /\ UNCHANGED notHandler
  /\ received' = Append(received, Outcome("bad_json", 200, NoFeaturesBody))
  /\ inflight' = Settled
  /\ Catch([message |-> "Unexpected token", status |-> 0, text |-> ""])

\* Mutant of HitMeta: the radius reported is the last of the ladder.
HitMeta_LastRadius(k) ==
  IF k = 0 THEN [method |-> "point_intersects"]
  ELSE [method |-> "envelope_fallback", radius_m |-> radiiMeters[Len(radiiMeters)]]

\* Mutant of HitMeta: radius_m is written for the hit of the point query too.
HitMeta_AlwaysRadius(k) ==
  [method |-> IF k = 0 THEN "point_intersects" ELSE "envelope_fallback",
   radius_m |-> IF k = 0 THEN 0 ELSE radiiMeters[k]]

\* The meta object of a hit at step k.
HitMeta(k) ==
  IF k = 0 THEN [method |-> "point_intersects"]
  ELSE [method |-> "envelope_fallback", radius_m |-> radiiMeters[k]]

\* Mutant of NoneMeta: no reason is given.
NoneMeta_NoReason == [method |-> "none"]

\* The meta object of the exhausted ladder.
NoneMeta == [method |-> "none", reason |-> "no_features_within_3km"]

\* Mutant of LadderStep: the return after a hit is missing, so the loop goes
\* on to the next radius.
LadderStep_NoReturn(b) ==
  IF step < Len(radiiMeters)
  THEN /\ step' = step + 1
       /\ issued' = Append(issued, buildQueryUrl(step + 1, lon, lat))
       /\ inflight' = Settled \cup {Len(issued) + 1}
       /\ pc' = "fetch"
       /\ res' = IF Truthy(b) THEN Send(200, oneOrEmpty(b, HitMeta(step))) ELSE res
  ELSE /\ res' = Send(200, oneOrEmpty(b, IF Truthy(b) THEN HitMeta(step) ELSE NoneMeta))
       /\ pc' = "done"
       /\ inflight' = Settled
       /\ UNCHANGED <<step, issued>>

\* Mutant of LadderStep: the response after the last radius is missing, so
\* the handler returns without answering.
LadderStep_NoFinalResponse(b) ==
  IF Truthy(b)
  THEN /\ res' = Send(200, oneOrEmpty(b, HitMeta(step)))
       /\ pc' = "done"
       /\ inflight' = Settled
       /\ UNCHANGED <<step, issued>>
  ELSE IF step < Len(radiiMeters)
  THEN /\ step' = step + 1
       /\ issued' = Append(issued, buildQueryUrl(step + 1, lon, lat))
       /\ inflight' = Settled \cup {Len(issued) + 1}
       /\ pc' = "fetch"
       /\ UNCHANGED res
  ELSE /\ pc' = "returned"
       /\ inflight' = Settled
       /\ UNCHANGED <<step, issued, res>>

\* Mutant of LadderStep: the loop steps over the next radius.
LadderStep_SkipRadius(b) ==
  IF Truthy(b)
  THEN /\ res' = Send(200, oneOrEmpty(b, HitMeta(step)))
       /\ pc' = "done"
       /\ inflight' = Settled
       /\ UNCHANGED <<step, issued>>
  ELSE IF step < Len(radiiMeters)
  THEN /\ step' = IF step + 2 <= Len(radiiMeters) THEN step + 2 ELSE step + 1
       /\ issued' = Append(issued, buildQueryUrl(step', lon, lat))
       /\ inflight' = Settled \cup {Len(issued) + 1}
       /\ pc' = "fetch"
       /\ UNCHANGED res
  ELSE /\ res' = Send(200, oneOrEmpty(Null, NoneMeta))
       /\ pc' = "done"
       /\ inflight' = Settled
       /\ UNCHANGED <<step, issued>>

\* Mutant of LadderStep: on a hit any candidate of the answer is returned.
LadderStep_AnyCandidate(b) ==
  IF Truthy(b)
  THEN /\ \E i \in 1..Len(fc'.features) :
            res' = Send(200, oneOrEmpty(fc'.features[i], HitMeta(step)))
       /\ pc' = "done"
       /\ inflight' = Settled
       /\ UNCHANGED <<step, issued>>
  ELSE IF step < Len(radiiMeters)
  THEN /\ step' = step + 1
       /\ issued' = Append(issued, buildQueryUrl(step + 1, lon, lat))
       /\ inflight' = Settled \cup {Len(issued) + 1}
       /\ pc' = "fetch"
       /\ UNCHANGED res
  ELSE /\ res' = Send(200, oneOrEmpty(Null, NoneMeta))
       /\ pc' = "done"
       /\ inflight' = Settled
       /\ UNCHANGED <<step, issued>>

\* The ladder revision after a body has been parsed and `best` chosen:
\* respond on a hit, else query the next radius, else respond empty.
LadderStep(b) ==
  IF Truthy(b)
  THEN /\ res' = Send(200, oneOrEmpty(b, HitMeta(step)))
       /\ pc' = "done"
       /\ inflight' = Settled
       /\ UNCHANGED <<step, issued>>
  ELSE IF step < Len(radiiMeters)
  THEN /\ step' = step + 1
       /\ issued' = Append(issued, buildQueryUrl(step + 1, lon, lat))
       /\ inflight' = Settled \cup {Len(issued) + 1}
       /\ pc' = "fetch"
       /\ UNCHANGED res
  ELSE /\ res' = Send(200, oneOrEmpty(Null, NoneMeta))
       /\ pc' = "done"
       /\ inflight' = Settled
       /\ UNCHANGED <<step, issued>>

\* The single revision after a body has been parsed and `best` chosen: one
\* envelope query after a miss of the point query, then the response.
SingleStep(b) ==
  IF ~Truthy(b) /\ step = 0
  THEN /\ step' = 1
       /\ issued' = Append(issued, buildQueryUrl(1, lon, lat))
       /\ inflight' = Settled \cup {Len(issued) + 1}
       /\ pc' = "fetch"
       /\ UNCHANGED res
  ELSE /\ res' = Send(200, singleFeatureCollection(b))
       /\ pc' = "done"
       /\ inflight' = Settled
       /\ UNCHANGED <<step, issued>>

\* Mutant of JsonResolves: a body without a features array is an upstream
\* failure.
JsonResolves_RequireFeatures(body) ==
  /\ pc = "json"
  /\ UNCHANGED <<impl, req, lat, lon>>
  /\ UNCHANGED notHandler
  /\ IF ~body.hasFeatures
     THEN /\ received' = Append(received, Outcome("ok", 200, body))
          /\ inflight' = Settled
          /\ Catch([message |-> "no features", status |-> 0, text |-> ""])
          /\ UNCHANGED <<step, fc, best, issued>>
     ELSE /\ fc' = body
          /\ received' = Append(received, Outcome("ok", 200, body))
          /\ best' = chooseBestFeature(body, lon, lat)
          /\ IF impl = "ladder" THEN LadderStep(best') ELSE SingleStep(best')

\* fetchGeoJson: r.json() yields the parsed body; the handler goes on to
\* its next await or to its response.
JsonResolves(body) ==
  /\ pc = "json"
  /\ UNCHANGED <<impl, req, lat, lon>>
  /\ UNCHANGED notHandler
  /\ fc' = body
  /\ received' = Append(received, Outcome("ok", 200, body))
  /\ best' = chooseBestFeature(body, lon, lat)
  /\ IF impl = "ladder" THEN LadderStep(best') ELSE SingleStep(best')

Next ==
  \/ \E m \in Methods, la \in RawParams, lo \in RawParams :
       Invoke(m, [lat |-> la, lon |-> lo])
  \/ \E status \in UpstreamStatuses : FetchResolves(status)
  \/ \E text \in ErrorTexts : TextSettles(text)
  \/ FetchRejects
  \/ JsonRejects
  \/ \E body \in Bodies : JsonResolves(body)

Spec == Init /\ [][Next]_vars

\* ------------------------------------------------------------------------
\* Two invocations of the handler in one process.  JavaScript runs one of
\* them at a time, from one await to the next; at an await the event loop may
\* resume the other one.  Each invocation has its own req and res and its own
\* locals (lat, lon, best, the loop over radiiMeters): the handler declares
\* nothing at module level.
\* ------------------------------------------------------------------------
Locals ==
  [pc |-> pc, req |-> req, lat |-> lat, lon |-> lon, step |-> step, fc |-> fc,
   best |-> best, inflight |-> inflight, issued |-> issued, received |-> received,
   res |-> res]

\* Mutant of Switch: lat and lon are module-level and shared by the invocations.
Switch_SharedPoint ==
  /\ other' = Locals
  /\ pc' = other.pc /\ req' = other.req
  /\ step' = other.step /\ fc' = other.fc /\ best' = other.best
  /\ inflight' = other.inflight /\ issued' = other.issued /\ received' = other.received
  /\ res' = other.res
  /\ UNCHANGED <<lat, lon, impl, notPair>>

\* The event loop turns from the running invocation to the other one.
Switch ==
  /\ other' = Locals
  /\ pc' = other.pc /\ req' = other.req /\ lat' = other.lat /\ lon' = other.lon
  /\ step' = other.step /\ fc' = other.fc /\ best' = other.best
  /\ inflight' = other.inflight /\ issued' = other.issued /\ received' = other.received
  /\ res' = other.res
  /\ UNCHANGED <<impl, notPair>>

\* The requests and upstream answers of the two invocations: two points, and
\* an empty answer or the candidates B, C, of which B is nearer to the one
\* point and C to the other.
PairQueries ==
  { [lat |-> Str(<<>>), lon |-> Str(<<" ", "1">>)],
    [lat |-> Str(<<" ", "1">>), lon |-> Str(<<>>)] }
PairStatuses == {200, 503}
PairBodies == { FC(<<>>), FC(<<FeaturePool[2], FeaturePool[3]>>) }

PairNext ==
  \/ \E q \in PairQueries : Invoke("GET", q)
  \/ \E status \in PairStatuses : FetchResolves(status)
  \/ FetchRejects
  \/ JsonRejects
  \/ \E body \in PairBodies : JsonResolves(body)
  \/ Switch

PairInit == Init /\ impl = "ladder"

PairSpec == PairInit /\ [][PairNext]_vars

\* ------------------------------------------------------------------------
\* metersToDeg on its own: a radius of the ladder and a latitude are taken,
\* then the conversion is applied.
\* ------------------------------------------------------------------------
Ask(m, l) ==
  /\ ~calc.asked
  /\ calc' = [NotAsked EXCEPT !.meters = m, !.lat = Fin(l), !.asked = TRUE]
  /\ UNCHANGED notCalc

Convert ==
  /\ calc.asked
  /\ ~calc.done
  /\ LET d == metersToDeg(calc.meters, calc.lat)
     IN  calc' = [calc EXCEPT !.done = TRUE, !.degLat = d.degLat, !.degLon = d.degLon]
  /\ UNCHANGED notCalc

ConvNext ==
  \/ \E i \in 1..Len(radiiMeters), l \in Latitudes : Ask(radiiMeters[i], l)
  \/ Convert

ConvInit == Init /\ impl = "ladder"

ConvSpec == ConvInit /\ [][ConvNext]_vars

\* ------------------------------------------------------------------------
\* floodTier: the copy of the restarted App, the copy of MapView.jsx and
\* the exported one of risk.js, each translated from its own text.
\* ------------------------------------------------------------------------
floodTierApp(flood_risk) ==
  LET r == ToNumber(flood_risk)
  IN  CASE ~IsFinite(r) -> "yellow"
        [] Ge(r, Fin(3)) -> "red"
        [] Ge(r, Fin(2)) -> "yellow"
        [] OTHER -> "green"

floodTierMapView(flood_risk) ==
  LET r == ToNumber(flood_risk)
  IN  CASE ~IsFinite(r) -> "yellow"
        [] Ge(r, Fin(3)) -> "red"
        [] Ge(r, Fin(2)) -> "yellow"
        [] OTHER -> "green"

floodTierRisk(flood_risk) ==
  LET r == ToNumber(flood_risk)
  IN  CASE ~IsFinite(r) -> "yellow"
        [] Ge(r, Fin(3)) -> "red"
        [] Ge(r, Fin(2)) -> "yellow"
        [] OTHER -> "green"

\* The values of flood_risk tried: missing, NULL, numbers around the two
\* thresholds, the non-finite numbers, and every string of at most two
\* characters over the alphabet below.
RiskChars == {"1", "2", "3", " ", "x", "-"}
RiskStrings == {<<>>} \cup {<<c>> : c \in RiskChars}
                 \cup {<<c, d>> : c \in RiskChars, d \in RiskChars}
RiskNumbers == {Fin(n) : n \in -1..5} \cup {NaN, PosInf, NegInf}
FloodRisks == {JsUndefined, JsNull} \cup {JsNumber(x) : x \in RiskNumbers}
                \cup {JsString(t) : t \in RiskStrings}

AskTier(v) ==
  /\ ~tier.asked
  /\ tier' = [NoTier EXCEPT !.value = v, !.asked = TRUE]
  /\ UNCHANGED notTier

Classify ==
  /\ tier.asked
  /\ ~tier.done
  /\ tier' = [tier EXCEPT !.done = TRUE,
                          !.app = floodTierApp(tier.value),
                          !.mapView = floodTierMapView(tier.value),
                          !.risk = floodTierRisk(tier.value)]
  /\ UNCHANGED notTier

TierNext ==
  \/ \E v \in FloodRisks : AskTier(v)
  \/ Classify

TierInit == Init /\ impl = "ladder"

TierSpec == TierInit /\ [][TierNext]_vars

\* ------------------------------------------------------------------------
\* MapView: the overlay effect, useEffect(..., [selectedPark]).
\*
\* A change of selectedPark runs the cleanup of the previous effect and then
\* the new effect, whose fetchOverlay runs up to its first await; this is one
\* step.  Each later step is one resumption of a fetchOverlay: after
\* `await fetch`, after `await r.json()`, or in its catch block.
\* ------------------------------------------------------------------------
ParkA == [id |-> "a", latitude |-> Str(<<"2">>), longitude |-> Str(<<"1">>)]
ParkB == [id |-> "b", latitude |-> Str(<<"4">>), longitude |-> Str(<<"3">>)]
\* a park without a latitude
ParkX == [id |-> "x", latitude |-> Undefined, longitude |-> Str(<<"5">>)]
Parks == {ParkA, ParkB, ParkX}

\* The flood-zone polygon the API returns for a point.
ZoneAt(lo, la) ==
  Feature("zone", Polygon(<< <<V(lo.v, la.v), V(lo.v + 1, la.v), V(lo.v, la.v + 1),
                               V(lo.v, la.v)>> >>))

\* The statuses and parsed bodies of /api/fema-floodzone for a point.
ApiStatuses == {200, 400, 502}
ApiBodies(lo, la) == {NoFeaturesBody, FC(<<>>), FC(<<ZoneAt(lo, la)>>)}

\* setOverlayGeoJson(gj)
Overlay(gj) == [hasFeatures |-> gj.hasFeatures, features |-> gj.features, null |-> FALSE]

SelectionChanges_NoFiniteCheck(p) ==
  /\ p # selectedPark
  /\ selectedPark' = p
  /\ overlayGeoJson' = NoOverlay
  /\ LET la == Number(p.latitude)
         lo == Number(p.longitude)
         cleaned == [i \in 1..Len(runs) |-> [runs[i] EXCEPT !.cancelled = TRUE]]
     IN  IF p = NoPark
         THEN /\ runs' = cleaned
              /\ UNCHANGED activeRequestId
         ELSE /\ Len(runs) < MaxRuns
              /\ activeRequestId' = activeRequestId + 1
              /\ runs' = Append(cleaned, [lat |-> la, lon |-> lo,
                                          requestId |-> activeRequestId + 1,
                                          cancelled |-> FALSE, at |-> "fetch"])
  /\ UNCHANGED notMapView

\* selectedPark changes to p: cleanup of the previous effect (cancelled =
\* true), then fetchOverlay up to `await fetch`.
SelectionChanges(p) ==
  /\ p # selectedPark
  /\ selectedPark' = p
  /\ overlayGeoJson' = NoOverlay
  /\ LET la == Number(p.latitude)
         lo == Number(p.longitude)
         cleaned == [i \in 1..Len(runs) |-> [runs[i] EXCEPT !.cancelled = TRUE]]
     IN  IF p = NoPark \/ ~IsFinite(la) \/ ~IsFinite(lo)
         THEN /\ runs' = cleaned
              /\ UNCHANGED activeRequestId
         ELSE /\ Len(runs) < MaxRuns
              /\ activeRequestId' = activeRequestId + 1
              /\ runs' = Append(cleaned, [lat |-> la, lon |-> lo,
                                          requestId |-> activeRequestId + 1,
                                          cancelled |-> FALSE, at |-> "fetch"])
  /\ UNCHANGED notMapView

\* fetchOverlay of run r after `await fetch`: the overlay it leaves and
\* where it stands next.
onResponse(r, status) ==
  IF r.cancelled THEN [overlay |-> overlayGeoJson, at |-> "end"]
  ELSE IF r.requestId # activeRequestId THEN [overlay |-> overlayGeoJson, at |-> "end"]
  ELSE IF ~Ok(status) THEN [overlay |-> NoOverlay, at |-> "end"]
  ELSE [overlay |-> overlayGeoJson, at |-> "json"]

\* fetchOverlay of run r after `await r.json()`.
onBody(r, gj) ==
  LET hasFeatures == gj.hasFeatures /\ Len(gj.features) > 0
  IN  [overlay |-> IF hasFeatures THEN Overlay(gj) ELSE NoOverlay, at |-> "end"]

\* The catch block of fetchOverlay of run r.
onCatch(r) ==
  [overlay |-> IF ~r.cancelled /\ r.requestId = activeRequestId
               THEN NoOverlay ELSE overlayGeoJson,
   at |-> "end"]

Resume(i, to) ==
  /\ overlayGeoJson' = to.overlay
  /\ runs' = [runs EXCEPT ![i].at = to.at]
  /\ UNCHANGED <<selectedPark, activeRequestId, notMapView>>

ResponseArrives(i, status) ==
  /\ runs[i].at = "fetch"
  /\ Resume(i, onResponse(runs[i], status))

FetchFails(i) ==
  /\ runs[i].at = "fetch"
  /\ Resume(i, onCatch(runs[i]))

BodyArrives(i, gj) ==
  /\ runs[i].at = "json"
  /\ Resume(i, onBody(runs[i], gj))

BodyFails(i) ==
  /\ runs[i].at = "json"
  /\ Resume(i, onCatch(runs[i]))

MapNext ==
  \/ \E p \in Parks \cup {NoPark} : SelectionChanges(p)
  \/ \E i \in 1..Len(runs), status \in ApiStatuses : ResponseArrives(i, status)
  \/ \E i \in 1..Len(runs) : FetchFails(i)
  \/ \E i \in 1..Len(runs) : \E gj \in ApiBodies(runs[i].lon, runs[i].lat) : BodyArrives(i, gj)
  \/ \E i \in 1..Len(runs) : BodyFails(i)

MapInit == Init /\ impl = "ladder"

MapSpec == MapInit /\ [][MapNext]_vars

\* ------------------------------------------------------------------------
\* The front end.  A step is the continuation of fetchParks after its
\* await, one event handler, one render with its commit, or one effect.
\* The state updates of one handler or continuation are rendered together.
\* The effects of a commit run before anything else happens: children
\* before parents, in the order of their declaration.
\* ------------------------------------------------------------------------
MaxEvents == 3

Apps == {"restart", "legacy"}

\* What the query can return: no row, or the three parks.
RowSets == {<<>>, <<ParkA, ParkB, ParkX>>}

\* The zoom levels fitBounds can end at, and those the user zooms to.
FitZooms == {6, 7}
Zooms == {5, 14}

Max(a, b) == IF a >= b THEN a ELSE b

Ids(rows) == {rows[i].id : i \in 1..Len(rows)}

\* parks.find((p) => getParkId(p) === id)
Find(rows, id) ==
  IF id \in Ids(rows) THEN rows[CHOOSE i \in 1..Len(rows) : rows[i].id = id] ELSE NoPark

\* parkLatLng(p); null is NoLatLng
NoLatLng == [null |-> TRUE, lat |-> NaN, lon |-> NaN]
parkLatLng(p) ==
  LET la == Number(p.latitude)
      lo == Number(p.longitude)
  IN  IF ~IsFinite(la) \/ ~IsFinite(lo) THEN NoLatLng
      ELSE [null |-> FALSE, lat |-> la, lon |-> lo]

\* geometry.coordinates of the feature App.jsx builds of a row: [lon, lat],
\* each Number(x) or, for a value that is null or undefined, null.
coordinates(row) ==
  <<IF row.longitude.present THEN JsNumber(Number(row.longitude)) ELSE JsNull,
    IF row.latitude.present THEN JsNumber(Number(row.latitude)) ELSE JsNull>>

\* !loading && !error: MapView is rendered
Mounted(st) == ~st.loading /\ ~st.error

\* Nothing is left to render and no effect is left to run.
Quiescent == effects = <<>> /\ committed = AppState

\* ---- fetchParks after `await` -----------------------------------------
LoadResolves_DefaultSelection(rows) ==
  /\ fetchParks = "pending"
  /\ Quiescent
  /\ fetchParks' = "resolved"
  /\ parks' = rows
  /\ selection' = IF Len(rows) > 0 THEN rows[1].id ELSE selection
  /\ selectionSource' = selectionSource
  /\ trace' = [trace EXCEPT !.changes = IF Len(rows) > 0 THEN @ + 1 ELSE @]
  /\ loading' = FALSE
  /\ UNCHANGED <<app, sortMode, error, committed, effects, map, didFit, markerRefs,
                 firstSelectionRef, calls, notApp>>

LoadResolves(rows) ==
  /\ fetchParks = "pending"
  /\ Quiescent
  /\ fetchParks' = "resolved"
  /\ parks' = rows
  /\ IF app = "restart"
     THEN /\ selection' = "null"
          /\ selectionSource' = "null"
          /\ trace' = trace
     ELSE /\ selection' = IF Len(rows) > 0 THEN rows[1].id ELSE selection
          /\ selectionSource' = selectionSource
          /\ trace' = [trace EXCEPT !.changes = IF Len(rows) > 0 THEN @ + 1 ELSE @]
  /\ loading' = FALSE
  /\ UNCHANGED <<app, sortMode, error, committed, effects, map, didFit, markerRefs,
                 firstSelectionRef, calls, notApp>>

LoadFails_NoFinally ==
  /\ fetchParks = "pending"
  /\ Quiescent
  /\ fetchParks' = "rejected"
  /\ error' = TRUE
  /\ UNCHANGED <<app, parks, selection, selectionSource, sortMode, loading, committed,
                 effects, map, didFit, markerRefs, firstSelectionRef, calls, trace, notApp>>

LoadFails ==
  /\ fetchParks = "pending"
  /\ Quiescent
  /\ fetchParks' = "rejected"
  /\ error' = TRUE
  /\ loading' = FALSE
  /\ UNCHANGED <<app, parks, selection, selectionSource, sortMode, committed, effects,
                 map, didFit, markerRefs, firstSelectionRef, calls, trace, notApp>>

\* ---- render and commit --------------------------------------------------
\* The effects of MapView and of its children whose dependencies changed.
MapViewEffects ==
  LET now == Mounted(AppState)
      before == Mounted(committed)
  IN  CASE ~now -> <<>>
        [] app = "restart" /\ ~before -> <<"FitFloridaOnce", "ZoomToSelection">>
        [] app = "restart" ->
             IF parks # committed.parks \/ selection # committed.selection
             THEN <<"ZoomToSelection">> ELSE <<>>
        [] app = "legacy" /\ ~before -> <<"initMap", "buildLayer", "onSelectedPark">>
        [] OTHER ->
             \* onSelectPark is a new function at every render of App
             <<"buildLayer">> \o (IF selection # committed.selection
                                  THEN <<"onSelectedPark">> ELSE <<>>)

\* The effect of App with dependencies [selection, selectionSource].
AppEffects ==
  IF selection # committed.selection \/ selectionSource # committed.selectionSource
  THEN <<"scrollToSelected">> ELSE <<>>

Render ==
  /\ effects = <<>>
  /\ committed # AppState
  /\ committed' = AppState
  /\ effects' = MapViewEffects \o AppEffects
  /\ UNCHANGED <<app, appStateVars, fetchParks, map, didFit, markerRefs,
                 firstSelectionRef, calls, trace, notApp>>

Runs(effect) ==
  /\ effects # <<>>
  /\ Head(effects) = effect
  /\ effects' = Tail(effects)

\* ---- effects of the restarted front end ---------------------------------
FitFloridaOnce ==
  /\ Runs("FitFloridaOnce")
  /\ IF didFit
     THEN UNCHANGED <<didFit, map>>
     ELSE /\ didFit' = TRUE
          /\ \E z \in FitZooms : map' = [ready |-> TRUE, center |-> Florida, zoom |-> z]
  /\ UNCHANGED <<app, appStateVars, fetchParks, committed, markerRefs,
                 firstSelectionRef, calls, trace, notApp>>

ZoomToSelection_FixedZoom ==
  /\ Runs("ZoomToSelection")
  /\ LET selected == Find(parks, selection)
         latlng == IF selected # NoPark THEN parkLatLng(selected) ELSE NoLatLng
     IN  IF selection = "null" \/ latlng.null
         THEN UNCHANGED <<map, calls>>
         ELSE /\ map' = [map EXCEPT !.center = [lat |-> latlng.lat, lon |-> latlng.lon],
                                     !.zoom = 11]
              /\ calls' = [calls EXCEPT !.setView = @ + 1]
  /\ UNCHANGED <<app, appStateVars, fetchParks, committed, didFit, markerRefs,
                 firstSelectionRef, trace, notApp>>

ZoomToSelection ==
  /\ Runs("ZoomToSelection")
  /\ LET selected == Find(parks, selection)
         latlng == IF selected # NoPark THEN parkLatLng(selected) ELSE NoLatLng
     IN  IF selection = "null" \/ latlng.null
         THEN UNCHANGED <<map, calls>>
         ELSE /\ map' = [map EXCEPT !.center = [lat |-> latlng.lat, lon |-> latlng.lon],
                                     !.zoom = Max(map.zoom, 11)]
              /\ calls' = [calls EXCEPT !.setView = @ + 1]
  /\ UNCHANGED <<app, appStateVars, fetchParks, committed, didFit, markerRefs,
                 firstSelectionRef, trace, notApp>>

\* ---- the scroll effect of App (both revisions) --------------------------
scrollToSelected_AnySource ==
  /\ Runs("scrollToSelected")
  /\ IF selection = "null" \/ selectionSource = "null"
     THEN UNCHANGED <<selectionSource, calls>>
     ELSE /\ calls' = [calls EXCEPT !.scrollIntoView =
                         IF selection \in Ids(committed.parks) THEN @ + 1 ELSE @]
          /\ selectionSource' = "null"
  /\ UNCHANGED <<app, parks, selection, sortMode, loading, error, fetchParks, committed,
                 map, didFit, markerRefs, firstSelectionRef, trace, notApp>>

scrollToSelected ==
  /\ Runs("scrollToSelected")
  /\ IF selection = "null" \/ selectionSource # "map"
     THEN UNCHANGED <<selectionSource, calls>>
     ELSE /\ calls' = [calls EXCEPT !.scrollIntoView =
                         IF selection \in Ids(committed.parks) THEN @ + 1 ELSE @]
          /\ selectionSource' = "null"
  /\ UNCHANGED <<app, parks, selection, sortMode, loading, error, fetchParks, committed,
                 map, didFit, markerRefs, firstSelectionRef, trace, notApp>>

\* ---- effects of the Leaflet MapView of the earlier front end ------------
initMap ==
  /\ Runs("initMap")
  /\ map' = IF map.ready THEN map ELSE [ready |-> TRUE, center |-> Florida, zoom |-> 6]
  /\ UNCHANGED <<app, appStateVars, fetchParks, committed, didFit, markerRefs,
                 firstSelectionRef, calls, trace, notApp>>

buildLayer ==
  /\ Runs("buildLayer")
  /\ markerRefs' = IF ~map.ready THEN markerRefs
                   ELSE [id \in Ids(parks) |-> "default"]
  /\ UNCHANGED <<app, appStateVars, fetchParks, committed, map, didFit,
                 firstSelectionRef, calls, trace, notApp>>

\* flyTo([lat, lon], 12); a null coordinate is taken as 0 by L.latLng
toDegrees(c) == IF c.type = "null" THEN Fin(0) ELSE c.num

onSelectedPark_FlyOnFirst ==
  /\ Runs("onSelectedPark")
  /\ IF ~map.ready \/ selection = "null"
     THEN UNCHANGED <<firstSelectionRef, map, calls, markerRefs>>
     ELSE LET coords == coordinates(Find(parks, selection))
          IN  /\ firstSelectionRef' = FALSE
              /\ IF Len(coords) >= 2
                 THEN /\ map' = [map EXCEPT !.center = [lat |-> toDegrees(coords[2]),
                                                        lon |-> toDegrees(coords[1])],
                                             !.zoom = 12]
                      /\ calls' = [calls EXCEPT !.flyTo = @ + 1]
                 ELSE UNCHANGED <<map, calls>>
              /\ markerRefs' = [id \in DOMAIN markerRefs |->
                                  IF id = selection THEN "highlight" ELSE "default"]
  /\ UNCHANGED <<app, appStateVars, fetchParks, committed, didFit, trace, notApp>>

onSelectedPark ==
  /\ Runs("onSelectedPark")
  /\ IF ~map.ready \/ selection = "null"
     THEN UNCHANGED <<firstSelectionRef, map, calls, markerRefs>>
     ELSE LET coords == coordinates(Find(parks, selection))
          IN  /\ firstSelectionRef' = FALSE
              /\ IF ~firstSelectionRef /\ Len(coords) >= 2
                 THEN /\ map' = [map EXCEPT !.center = [lat |-> toDegrees(coords[2]),
                                                        lon |-> toDegrees(coords[1])],
                                             !.zoom = 12]
                      /\ calls' = [calls EXCEPT !.flyTo = @ + 1]
                 ELSE UNCHANGED <<map, calls>>
              /\ markerRefs' = [id \in DOMAIN markerRefs |->
                                  IF id = selection THEN "highlight" ELSE "default"]
  /\ UNCHANGED <<app, appStateVars, fetchParks, committed, didFit, trace, notApp>>

\* ---- the user -----------------------------------------------------------
\* selectPark(park, source) / handleSelectPark(feature, source)
selectPark(p, source) ==
  /\ selection' = p.id
  /\ selectionSource' = source
  /\ trace' = [trace EXCEPT !.events = @ + 1,
                            !.fromMap = IF source = "map" THEN @ + 1 ELSE @,
                            !.fromList = IF source = "list" THEN @ + 1 ELSE @,
                            !.changes = IF p.id # selection THEN @ + 1 ELSE @]
  /\ UNCHANGED <<app, parks, sortMode, loading, error, fetchParks, committed, effects,
                 map, didFit, markerRefs, firstSelectionRef, calls, notApp>>

\* The parks that have a marker on the map.
HasMarker(p) ==
  IF app = "restart" THEN ~parkLatLng(p).null ELSE p.id \in DOMAIN markerRefs

ClickMarker(i) ==
  /\ Quiescent
  /\ trace.events < MaxEvents
  /\ Mounted(committed)
  /\ HasMarker(parks[i])
  /\ selectPark(parks[i], "map")

ClickListItem(i) ==
  /\ Quiescent
  /\ trace.events < MaxEvents
  /\ selectPark(parks[i], "list")

SetSortMode(m) ==
  /\ Quiescent
  /\ trace.events < MaxEvents
  /\ app = "legacy"
  /\ sortMode' = m
  /\ trace' = [trace EXCEPT !.events = @ + 1]
  /\ UNCHANGED <<app, parks, selection, selectionSource, loading, error, fetchParks,
                 committed, effects, map, didFit, markerRefs, firstSelectionRef, calls,
                 notApp>>

\* The user zooms the map with the wheel or the zoom control.
UserZooms(z) ==
  /\ Quiescent
  /\ trace.events < MaxEvents
  /\ map.ready
  /\ z # map.zoom
  /\ map' = [map EXCEPT !.zoom = z]
  /\ trace' = [trace EXCEPT !.events = @ + 1]
  /\ UNCHANGED <<app, appStateVars, fetchParks, committed, effects, didFit, markerRefs,
                 firstSelectionRef, calls, notApp>>

React ==
  \/ Render
  \/ FitFloridaOnce
  \/ ZoomToSelection
  \/ scrollToSelected
  \/ initMap
  \/ buildLayer
  \/ onSelectedPark

LoadSettles ==
  \/ \E rows \in RowSets : LoadResolves(rows)
  \/ LoadFails

User ==
  \/ \E i \in 1..Len(parks) : ClickMarker(i)
  \/ \E i \in 1..Len(parks) : ClickListItem(i)
  \/ \E m \in {"alpha", "risk"} : SetSortMode(m)
  \/ \E z \in Zooms : UserZooms(z)

AppNext == LoadSettles \/ React \/ User

AppInit == Idle /\ impl = "ladder" /\ \E a \in Apps : AppStart(a)

AppSpec == AppInit /\ [][AppNext]_vars

\* The query settles, and React renders and runs the effects it scheduled.
FairAppSpec == AppSpec /\ WF_vars(LoadSettles) /\ WF_vars(React)

\* ------------------------------------------------------------------------
\* Properties
\* ------------------------------------------------------------------------
\* The score of a candidate for the point of the request.
Score(f) == featureScoreNearestVertex(f, lon, lat)

\* A 200 response that carries a feature, and that feature.
HasFeature == res.status = 200 /\ Len(res.body.features) >= 1
Selected == res.body.features[1]

\* The k-th query got a parsed body with no candidate / with a candidate /
\* with a candidate of finite score.
GotOk(k) == k <= Len(received) /\ received[k].outcome = "ok"
GotNone(k) == GotOk(k) /\ received[k].n <= 0
GotSome(k) == GotOk(k) /\ received[k].n >= 1
GotScorable(k) == GotOk(k) /\ received[k].scorable

\* The positions of the selected feature in the candidate set parsed last.
SelectedAt == { i \in 1..Len(fc.features) : fc.features[i].id = Selected.id }

\* C1: every FeatureCollection sent to the caller holds at most one feature,
\* however many candidates the upstream answers held.
C1_AtMostOneFeature ==
  res.status = 200 => Len(res.body.features) <= 1

C1_Witness ==
  /\ res.status = 200
  /\ Len(fc.features) = 2
  /\ Len(res.body.features) = 1

\* C2 as stated: in the ladder revision, whenever the point query returns a
\* non-empty candidate set, the response is 200 with exactly one feature and
\* method "point_intersects", and no envelope query is issued.
C2_Original ==
  (impl = "ladder" /\ GotSome(1)) =>
    /\ res.status = 200
    /\ Len(res.body.features) = 1
    /\ res.body.meta.method = "point_intersects"
    /\ Len(issued) = 1

\* C2 as amended: in the ladder revision, whenever the point query returns a
\* candidate set that holds a candidate of finite nearest-vertex score, the
\* response is 200 with exactly one feature and method "point_intersects",
\* and no envelope query is issued.
C2_DirectHit ==
  (impl = "ladder" /\ GotScorable(1)) =>
    /\ res.status = 200
    /\ Len(res.body.features) = 1
    /\ res.body.meta.method = "point_intersects"
    /\ Len(issued) = 1
    /\ issued[1].geometryType = "esriGeometryPoint"

C2_Witness ==
  /\ impl = "ladder"
  /\ GotScorable(1)
  /\ Len(fc.features) = 2
  /\ res.status = 200
  /\ res.body.meta.method = "point_intersects"

\* The least step of the ladder whose answer held a candidate / a candidate
\* of finite score (0 when there is none).
FirstSome ==
  IF \E k \in 2..Len(received) : GotSome(k)
  THEN CHOOSE k \in 2..Len(received) : GotSome(k) /\ \A j \in 2..(k - 1) : ~GotSome(j)
  ELSE 0
FirstScorable ==
  IF \E k \in 2..Len(received) : GotScorable(k)
  THEN CHOOSE k \in 2..Len(received) :
         GotScorable(k) /\ \A j \in 2..(k - 1) : ~GotScorable(j)
  ELSE 0

\* C3 as stated: in the ladder revision, when the point query returns no
\* candidates and some radius returns a non-empty candidate set, the
\* response is 200 with exactly one feature, method "envelope_fallback" and
\* radius_m the smallest radius whose answer was non-empty (read with no
\* query failing).
C3_Original ==
  (impl = "ladder" /\ pc = "done" /\ GotNone(1) /\ FirstSome # 0
     /\ \A k \in 1..Len(received) : GotOk(k)) =>
    /\ res.status = 200
    /\ Len(res.body.features) = 1
    /\ res.body.meta.method = "envelope_fallback"
    /\ res.body.meta.radius_m = radiiMeters[FirstSome - 1]

\* C3 as amended: in the ladder revision, when the point query returns no
\* candidate of finite score and some radius returns a candidate set that
\* holds a candidate of finite score, the response is 200 with exactly one
\* feature, method "envelope_fallback" and radius_m the smallest radius whose
\* answer held a candidate of finite score, never a larger one.
C3_SmallestRadius ==
  (impl = "ladder" /\ GotOk(1) /\ ~GotScorable(1) /\ FirstScorable # 0) =>
    /\ res.status = 200
    /\ Len(res.body.features) = 1
    /\ res.body.meta.method = "envelope_fallback"
    /\ res.body.meta.radius_m = radiiMeters[FirstScorable - 1]
    /\ issued[FirstScorable].geometry.radius_m = res.body.meta.radius_m

C3_Witness ==
  /\ impl = "ladder"
  /\ GotNone(1)
  /\ GotNone(2)
  /\ GotScorable(3)
  /\ res.status = 200
  /\ res.body.meta.radius_m = 1000

\* C4: once a query has yielded a selected candidate, no further query is
\* issued for the request; with no candidate for the point query and at
\* 300 m and one at 1000 m, the 3000 m query is never issued.
C4_NoQueryAfterHit ==
  impl = "ladder" =>
    \A k \in 1..Len(received) :
      GotScorable(k) => (Len(issued) = k /\ inflight = {} /\ pc = "done")

C4_Witness ==
  /\ impl = "ladder"
  /\ GotNone(1)
  /\ received[1].n = 0
  /\ GotNone(2)
  /\ received[2].n = 0
  /\ GotScorable(3)
  /\ received[3].n = 1
  /\ Len(fc.features) = 1
  /\ Len(issued) = 3
  /\ pc = "done"

\* C5: in the ladder revision, when the point query and every radius return
\* zero candidates and no query fails, the response is 200 with no feature,
\* method "none" and a reason.
C5_Exhausted ==
  (impl = "ladder" /\ Len(received) = 1 + Len(radiiMeters)
     /\ \A k \in 1..Len(received) : GotNone(k)) =>
    /\ res.status = 200
    /\ res.body.features = <<>>
    /\ res.body.meta.method = "none"
    /\ "reason" \in DOMAIN res.body.meta

C5_Witness ==
  /\ impl = "ladder"
  /\ Len(received) = 4
  /\ \A k \in 1..4 : GotOk(k) /\ received[k].n = 0
  /\ res.status = 200
  /\ res.body.meta.method = "none"

\* C6: a query that returns a non-success status or fails at the network
\* level (or whose body cannot be parsed) aborts the resolution at that
\* step: no later query is issued, the response is never a 200, and once
\* sent it is 502 with error and details.
C6_UpstreamFailureAborts ==
  \A k \in 1..Len(received) :
    received[k].outcome # "ok" =>
      /\ Len(issued) = k
      /\ Len(received) = k
      /\ res.status \in {0, 502}
      /\ pc \in {"text", "done"}
      /\ impl = "ladder" => pc = "done"
      /\ pc = "done" =>
           /\ res.status = 502
           /\ DOMAIN res.body = {"error", "details"}
           /\ res.sent = 1

C6_Witness ==
  /\ impl = "ladder"
  /\ Len(received) = 3
  /\ received[3].outcome = "network_error"
  /\ res.status = 502

\* What the words "a finite number" say of a raw query parameter, apart from
\* any conversion: it is there and, white space aside, it is an optionally
\* signed run of decimal digits.
IsFiniteNumberText(v) ==
  /\ v.present
  /\ LET t == TrimRight(TrimLeft(v.chars))
     IN  /\ t # <<>>
         /\ AllDigits(IF Head(t) \in {"+", "-"} THEN Tail(t) ELSE t)

\* C7: a request (other than OPTIONS) whose lat or lon is missing or is not
\* a finite number is answered with 400 {error: "Invalid lat/lon"} and no
\* outbound query is issued; a request whose lat and lon are both finite
\* numbers is never answered with 400.
C7_InvalidInputRejected ==
  (pc # "idle" /\ req.method # "OPTIONS") =>
    /\ (~IsFiniteNumberText(req.query.lat) \/ ~IsFiniteNumberText(req.query.lon)) =>
         /\ res.status = 400
         /\ res.body = [error |-> "Invalid lat/lon"]
         /\ issued = <<>>
    /\ (IsFiniteNumberText(req.query.lat) /\ IsFiniteNumberText(req.query.lon)) =>
         res.status # 400

\* C8: the selected feature is a candidate of the set whose nearest-vertex
\* squared distance is minimal over the set; a candidate with a vertex at
\* the query point (distance zero) wins over every candidate farther away.
C8_NearestSelected ==
  HasFeature =>
    /\ SelectedAt # {}
    /\ \A i \in 1..Len(fc.features) : ~Lt(Score(fc.features[i]), Score(Selected))
    /\ (\E i \in 1..Len(fc.features) : Score(fc.features[i]) = Fin(0)) =>
         Score(Selected) = Fin(0)

C8_Witness ==
  /\ HasFeature
  /\ Len(fc.features) = 2
  /\ Selected.id = fc.features[2].id
  /\ Score(Selected) = Fin(0)
  /\ Lt(Fin(0), Score(fc.features[1]))
  /\ IsFinite(Score(fc.features[1]))

\* C9: when several candidates of a set share the minimal nearest-vertex
\* distance, the one that comes first in the answer is selected: every
\* candidate before the selected one is strictly farther away.
C9_TieFirst ==
  HasFeature =>
    \A i \in SelectedAt : \A j \in 1..(i - 1) : Lt(Score(Selected), Score(fc.features[j]))

C9_Witness ==
  /\ HasFeature
  /\ Len(fc.features) = 2
  /\ IsFinite(Score(fc.features[1]))
  /\ Score(fc.features[1]) = Score(fc.features[2])
  /\ Selected.id = fc.features[1].id

\* C10: the queries of a request are strictly sequential: at most one is in
\* flight, and a query is issued only after the one before it has been
\* answered and has yielded no selected candidate.
C10_Sequential ==
  /\ Cardinality(inflight) <= 1
  /\ inflight \subseteq {Len(issued)}
  /\ \A k \in 2..Len(issued) : GotOk(k - 1) /\ ~GotScorable(k - 1)

C10_Witness ==
  /\ Len(issued) = 3
  /\ inflight = {3}
  /\ Len(received) = 2

\* The state of the per-request state machine a state of the handler stands
\* for.  A request answered at validation (400) or an OPTIONS request (204)
\* never starts a resolution: it is "Rejected".
Phase ==
  CASE pc = "idle" -> [name |-> "Start", radius |-> 0]
    [] pc \in {"fetch", "json", "text"} /\ step = 0 -> [name |-> "DirectQuery", radius |-> 0]
    [] pc \in {"fetch", "json", "text"} /\ step > 0 ->
         [name |-> "EscalateRadius", radius |-> Radii[step]]
    [] pc = "done" /\ res.status = 200 ->
         [name |-> IF res.body.features = <<>> THEN "Exhausted" ELSE "Resolved", radius |-> 0]
    [] pc = "done" /\ res.status = 502 -> [name |-> "Error", radius |-> 0]
    [] OTHER -> [name |-> "Rejected", radius |-> 0]

\* The index of a radius in the ladder of the deployed revision.
RadiusIndex(r) == CHOOSE i \in 1..Len(Radii) : Radii[i] = r

\* The transitions of the state machine: p to q.
Transition(p, q) ==
  CASE p.name = "Start" -> q.name \in {"DirectQuery", "Rejected"}
    [] p.name = "DirectQuery" ->
         \/ q = p
         \/ q.name \in {"Resolved", "Error"}
         \/ q.name = "EscalateRadius" /\ q.radius = Radii[1]
    [] p.name = "EscalateRadius" ->
         \/ q = p
         \/ q.name \in {"Resolved", "Error"}
         \/ /\ q.name = "EscalateRadius"
            /\ RadiusIndex(p.radius) < Len(Radii)
            /\ q.radius = Radii[RadiusIndex(p.radius) + 1]
         \/ q.name = "Exhausted" /\ RadiusIndex(p.radius) = Len(Radii)
    [] OTHER -> FALSE

\* C11: a request that passes validation follows only the transitions
\* Start -> DirectQuery -> {Resolved | EscalateRadius(300)} and
\* EscalateRadius(r_i) -> {Resolved | EscalateRadius(r_i+1) | Exhausted},
\* the radii in the order of the ladder with none skipped or repeated and
\* Exhausted only after the last, plus Error from any query step; no step
\* leaves Resolved, Exhausted or Error, and exactly one response is sent.
C11_StateMachine ==
  [][ /\ Transition(Phase, Phase')
      /\ Phase'.name \in {"DirectQuery", "EscalateRadius"} =>
           /\ Len(issued') = step' + 1
           /\ issued'[Len(issued')].geometry.radius_m = Phase'.radius
      /\ res'.sent = IF pc' = "done" THEN 1 ELSE 0 ]_vars

C11_Witness ==
  /\ impl = "ladder"
  /\ Phase.name = "Exhausted"
  /\ Len(issued) = 4
  /\ issued[2].geometry.radius_m = 300
  /\ issued[3].geometry.radius_m = 1000
  /\ issued[4].geometry.radius_m = 3000
  /\ res.sent = 1

\* The upstream answers of the runs checked for progress: no features array,
\* no candidate, a candidate without geometry, one polygon, and a polygon
\* without finite vertices before a MultiPolygon.
LiveBodies ==
  { NoFeaturesBody, FC(<<>>), FC(<<FeaturePool[5]>>), FC(<<FeaturePool[1]>>),
    FC(<<FeaturePool[7], FeaturePool[4]>>) }

\* An outbound query settles and the handler resumes.
Settle ==
  \/ \E status \in UpstreamStatuses : FetchResolves(status)
  \/ \E text \in ErrorTexts : TextSettles(text)
  \/ FetchRejects
  \/ JsonRejects
  \/ \E body \in LiveBodies : JsonResolves(body)

FairNext ==
  \/ \E m \in Methods, la \in RawParams, lo \in RawParams :
       Invoke(m, [lat |-> la, lon |-> lo])
  \/ Settle

\* The specification under the assumption that every query that has been
\* issued returns or fails in the end.
FairSpec == Init /\ [][FairNext]_vars /\ WF_vars(Settle)

\* C12: when every issued query returns or fails in the end, a request that
\* has been received reaches a terminal state and its response is sent; it
\* issues at most four queries (the point query and three envelope
\* queries), no query twice, and none after a failed one.
C12_Terminates ==
  /\ [][ /\ Len(issued') <= 1 + 3
         /\ \A i, j \in 1..Len(issued') : i # j => issued'[i] # issued'[j]
         /\ \A k \in 1..Len(received') :
              received'[k].outcome # "ok" => Len(issued') = k ]_vars
  /\ (pc # "idle") ~> (pc = "done" /\ res.sent = 1 /\ inflight = {})

C12_Witness ==
  /\ impl = "ladder"
  /\ pc = "done"
  /\ Len(issued) = 4
  /\ Len(received) = 4
  /\ received[4].outcome = "http_error"
  /\ res.sent = 1

\* ------------------------------------------------------------------------
\* C15: every 200 response of the ladder revision carries a meta object whose
\* method is "point_intersects", "envelope_fallback" or "none"; radius_m is
\* there exactly with "envelope_fallback" and is then a radius of the ladder;
\* reason is there exactly with "none"; the features array is non-empty
\* exactly when the method is not "none".
\* ------------------------------------------------------------------------
Meta == res.body.meta

C15_MetaShape ==
  (impl = "ladder" /\ res.status = 200) =>
    /\ "meta" \in DOMAIN res.body
    /\ "method" \in DOMAIN Meta
    /\ Meta.method \in {"point_intersects", "envelope_fallback", "none"}
    /\ ("radius_m" \in DOMAIN Meta) <=> (Meta.method = "envelope_fallback")
    /\ ("radius_m" \in DOMAIN Meta) =>
         \E i \in 1..Len(radiiMeters) : Meta.radius_m = radiiMeters[i]
    /\ ("reason" \in DOMAIN Meta) <=> (Meta.method = "none")
    /\ (res.body.features # <<>>) <=> (Meta.method # "none")

\* A hit of the 1 km query: envelope_fallback with radius_m and no reason.
C15_Witness ==
  /\ impl = "ladder"
  /\ res.status = 200
  /\ Meta.method = "envelope_fallback"
  /\ Meta.radius_m = 1000
  /\ "reason" \notin DOMAIN Meta
  /\ Len(res.body.features) = 1

\* ------------------------------------------------------------------------
\* C16: the score of a candidate is the least squared distance from the
\* query point to a vertex of a ring of its geometry: the rings of a Polygon,
\* the rings of every polygon of a MultiPolygon, so that a MultiPolygon
\* scores as the best of its polygons.  A vertex with a coordinate that is
\* not finite has no distance; without any vertex the score is +Infinity.
\* ------------------------------------------------------------------------
RingsOf(g) ==
  IF g.type = "Polygon" THEN { g.rings[i] : i \in 1..Len(g.rings) }
  ELSE IF g.type = "MultiPolygon"
  THEN UNION { { g.polys[p][i] : i \in 1..Len(g.polys[p]) } : p \in 1..Len(g.polys) }
  ELSE {}

VerticesOf(g) ==
  { pt \in UNION { { r[j] : j \in 1..Len(r) } : r \in RingsOf(g) } :
      IsFinite(pt[1]) /\ IsFinite(pt[2]) }

SqDist(pt) == (pt[1].v - lon.v) * (pt[1].v - lon.v) + (pt[2].v - lat.v) * (pt[2].v - lat.v)

\* The least of a set of scores, +Infinity for the empty set.
Least(S) == IF S = {} THEN PosInf ELSE CHOOSE d \in S : \A e \in S : d = e \/ Lt(d, e)

PartScores(f) ==
  { featureScoreNearestVertex(Feature(f.id, Polygon(f.geometry.polys[p])), lon, lat) :
      p \in 1..Len(f.geometry.polys) }

C16_ScoreIsNearestVertex ==
  (pc \notin {"idle"} /\ IsFinite(lat) /\ IsFinite(lon)) =>
    \A i \in 1..Len(fc.features) :
      LET f == fc.features[i]
      IN  /\ Score(f) = Least({ Fin(SqDist(pt)) : pt \in VerticesOf(f.geometry) })
          /\ f.geometry.type = "MultiPolygon" =>
               Score(f) = Least(PartScores(f) \ {PosInf})

\* The MultiPolygon M answered to the point (0, 0): its nearest vertex (1, 1)
\* lies in the second ring of its second polygon, and M is returned.
C16_Witness ==
  /\ pc = "done"
  /\ lon = Fin(0) /\ lat = Fin(0)
  /\ HasFeature
  /\ Selected.id = "M"
  /\ Score(Selected) = Fin(2)
  /\ Score(Feature("M", Polygon(Selected.geometry.polys[1]))) = Fin(72)

\* ------------------------------------------------------------------------
\* C18: every outbound query asks for the intersects relation in spatial
\* reference 4326 with at most 25 records; the first query of a request has
\* the input point itself as geometry, every later query a rectangle whose
\* centre is the input point.
\* ------------------------------------------------------------------------
Twice(n) == Rat(2 * n.v, 1)

C18_QueryShape ==
  \A k \in 1..Len(issued) :
    LET q == issued[k]
        g == q.geometry.coords
    IN  /\ q.spatialRel = "esriSpatialRelIntersects"
        /\ q.inSR = "4326" /\ q.outSR = "4326"
        /\ q.resultRecordCount = 25
        /\ k = 1 => /\ q.geometryType = "esriGeometryPoint"
                    /\ g = <<Rat(lon.v, 1), Rat(lat.v, 1)>>
        /\ k > 1 => /\ q.geometryType = "esriGeometryEnvelope"
                    /\ Len(g) = 4
                    /\ RatLt(g[1], g[3]) /\ RatLt(g[2], g[4])
                    /\ RatAdd(g[1], g[3]) = Twice(lon)
                    /\ RatAdd(g[2], g[4]) = Twice(lat)

\* The point query and the three envelope queries of a request for (1, 1).
C18_Witness ==
  /\ impl = "ladder"
  /\ lon = Fin(1) /\ lat = Fin(1)
  /\ Len(issued) = 4
  /\ issued[1].geometry.coords = <<Rat(1, 1), Rat(1, 1)>>
  /\ issued[4].geometry.coords =
       <<Rat(111320 - 3000, 111320), Rat(111320 - 3000, 111320),
         Rat(111320 + 3000, 111320), Rat(111320 + 3000, 111320)>>

\* ------------------------------------------------------------------------
\* C17.  As stated: the latitude offset is radius / 111320 and the longitude
\* offset is the latitude offset divided by cos(latitude), the divisor never
\* below 0.2, so it lies between one and five times the latitude offset.
\* The code divides by cos(latitude) only while it is above 0.2 and takes the
\* latitude offset itself otherwise.
\* ------------------------------------------------------------------------
CosLat == cosThousandths(calc.lat.v)
Times(a, k) == Rat(a.num * k, a.den)

C17_Original ==
  calc.done =>
    /\ calc.degLat = Rat(calc.meters, 111320)
    /\ Times(calc.degLon, IF CosLat < 200 THEN 200 ELSE CosLat) = Times(calc.degLat, 1000)
    /\ RatLe(calc.degLat, calc.degLon)
    /\ RatLe(calc.degLon, Times(calc.degLat, 5))

\* C17, amended: the latitude offset is radius / 111320; the longitude offset
\* times cos(latitude) is the latitude offset when cos(latitude) > 0.2, and
\* the longitude offset is the latitude offset otherwise; it is never less
\* than the latitude offset nor more than five times it.
C17_Offsets ==
  calc.done =>
    /\ calc.degLat = Rat(calc.meters, 111320)
    /\ CosLat > 200 => Times(calc.degLon, CosLat) = Times(calc.degLat, 1000)
    /\ CosLat <= 200 => calc.degLon = calc.degLat
    /\ RatLe(calc.degLat, calc.degLon)
    /\ RatLe(calc.degLon, Times(calc.degLat, 5))

\* 3 km at latitude 80, where cos is about 0.17: both offsets are 3000 / 111320.
C17_Witness ==
  /\ calc.done
  /\ calc.meters = 3000
  /\ calc.lat = Fin(80)
  /\ calc.degLat = Rat(3000, 111320)
  /\ calc.degLon = calc.degLat

\* ------------------------------------------------------------------------
\* C19: in the map view the overlay is cleared when the selection changes,
\* and an overlay that is shown is the polygon fetched for the park selected
\* now, whatever the order of selection changes, responses and parsed
\* bodies.
\* ------------------------------------------------------------------------
\* {overlayGeoJson && selectedTier ? ... }: an overlay is drawn.
Displayed == ~overlayGeoJson.null /\ selectedPark # NoPark

ZoneOfSelection == ZoneAt(Number(selectedPark.longitude), Number(selectedPark.latitude))

C19_NoStaleOverlay ==
  Displayed => overlayGeoJson.features = <<ZoneOfSelection>>

\* The first half of C19 alone: every change of selectedPark leaves
\* overlayGeoJson null.
OverlayClearedOnSelection ==
  [][selectedPark' # selectedPark => overlayGeoJson'.null]_vars

\* ------------------------------------------------------------------------
\* C20: the map view can tell an error (a status that is not ok, a failed
\* fetch) from a 200 with an empty FeatureCollection: for a request whose
\* answer is awaited and still wanted, the overlay state left by the error
\* differs from the one left by the empty collection.
\* ------------------------------------------------------------------------
Wanted(i) == runs[i].at = "fetch" /\ ~runs[i].cancelled /\ runs[i].requestId = activeRequestId

AfterEmpty(i) == onBody([runs[i] EXCEPT !.at = onResponse(runs[i], 200).at], FC(<<>>)).overlay

C20_ErrorDistinct ==
  \A i \in 1..Len(runs) :
    Wanted(i) =>
      /\ \A status \in ApiStatuses : ~Ok(status) => onResponse(runs[i], status).overlay # AfterEmpty(i)
      /\ onCatch(runs[i]).overlay # AfterEmpty(i)

AnswerOf(v) ==
  IF v.res.status = 200
  THEN [status |-> 200, features |-> v.res.body.features, meta |-> v.res.body.meta]
  ELSE [status |-> v.res.status, features |-> <<>>, meta |-> NoMeta]

AloneAnswer(v) ==
  LET la == Number(v.req.query.lat)
      lo == Number(v.req.query.lon)
      n == Len(v.received)
      b == chooseBestFeature(v.fc, lo, la)
  IN  IF v.received[n].outcome # "ok"
      THEN [status |-> 502, features |-> <<>>, meta |-> NoMeta]
      ELSE IF b.id # "null"
      THEN [status |-> 200, features |-> <<b>>, meta |-> HitMeta(n - 1)]
      ELSE [status |-> 200, features |-> <<>>, meta |-> NoneMeta]

OwnQueries(v) ==
  \A k \in 1..Len(v.issued) :
    v.issued[k] = buildQueryUrl(k - 1, Number(v.req.query.lon), Number(v.req.query.lat))

C14_NoInterference ==
  impl = "ladder" =>
    \A v \in {Locals, other} :
      /\ OwnQueries(v)
      /\ (v.pc = "done" /\ v.received # <<>>) =>
           /\ v.res.sent = 1
           /\ AnswerOf(v) = AloneAnswer(v)

\* Both invocations were answered B, C by their 1 km query: the one for the
\* point (1, 0) returned B, the one for (0, 1) returned C.
C14_Witness ==
  /\ pc = "done" /\ other.pc = "done"
  /\ lon = Fin(1) /\ lat = Fin(0)
  /\ other.lon = Fin(0) /\ other.lat = Fin(1)
  /\ fc = other.fc
  /\ Len(received) = 3 /\ Len(other.received) = 3
  /\ HasFeature /\ Selected.id = "B"
  /\ other.res.body.features # <<>>
  /\ other.res.body.features[1].id = "C"
  /\ other.res.body.meta = [method |-> "envelope_fallback", radius_m |-> 1000]

\* ------------------------------------------------------------------------
\* C29: a feature that is returned has Polygon or MultiPolygon geometry and
\* a finite score; an answer whose candidates all lack a finite score (no
\* geometry, another geometry type, no finite vertex) is handled like an
\* answer without candidates: the next radius is queried, or after the last
\* radius the response is the empty collection.
\* ------------------------------------------------------------------------
\* This step parsed an answer of the given kind.
Parsed(P(_)) ==
  /\ Len(received') = Len(received) + 1
  /\ received'[Len(received')].outcome = "ok"
  /\ P(received'[Len(received')])

\* What the handler does after an answer without candidates.
AsAfterEmpty ==
  IF step < Len(Radii)
  THEN /\ pc' = "fetch"
       /\ step' = step + 1
       /\ issued' = Append(issued, buildQueryUrl(step + 1, lon, lat))
       /\ res' = res
  ELSE /\ pc' = "done"
       /\ issued' = issued
       /\ res'.status = 200
       /\ res'.body.features = <<>>
       /\ res'.sent = 1
       /\ impl = "ladder" => res'.body.meta = NoneMeta

Unscorable(o) == o.n = 1 /\ ~o.scorable

C29_OnlyScorableSelected ==
  [][ /\ (res'.status = 200 /\ res'.body.features # <<>>) =>
           /\ res'.body.features[1].geometry.type \in {"Polygon", "MultiPolygon"}
           /\ IsFinite(featureScoreNearestVertex(res'.body.features[1], lon', lat'))
      /\ Parsed(Unscorable) => AsAfterEmpty ]_vars

\* The point query and the 300 m query were answered candidates without a
\* finite score only, the latter a polygon without finite vertices: 1 km is
\* queried next.
C29_Witness ==
  /\ impl = "ladder"
  /\ pc = "fetch"
  /\ Len(received) = 2
  /\ received[1].n = 1 /\ ~received[1].scorable
  /\ received[2].n = 1 /\ ~received[2].scorable
  /\ fc = FC(<<FeaturePool[7]>>)
  /\ Len(issued) = 3
  /\ issued[3].geometry.radius_m = 1000

\* ------------------------------------------------------------------------
\* C30: an upstream answer with a success status and a body without a
\* features array is handled like an answer without candidates (next radius,
\* or the empty 200 response after the last one); 502 is answered only after
\* a status that is not a success, a failed fetch or an unparsable body.
\* ------------------------------------------------------------------------
NoFeaturesArray(o) == o.n = -1

Unknown(v) ==
  \/ v.type \in {"undefined", "null"}
  \/ v.type = "string" /\ TrimRight(TrimLeft(v.chars)) = <<>>
  \/ ~IsFinite(ToNumber(v))

TierOfKnown(x) ==
  IF x.v >= 3 THEN "red" ELSE IF x.v >= 2 THEN "yellow" ELSE "green"

C22_TierOfEveryInput ==
  tier.done =>
    /\ tier.app = tier.mapView
    /\ tier.mapView = tier.risk
    /\ tier.app = IF Unknown(tier.value) THEN "yellow"
                  ELSE TierOfKnown(ToNumber(tier.value))

\* The three copies answer alike, and as the claim says on every input
\* that is a number or text holding one.
C22_CopiesAgree ==
  tier.done =>
    /\ tier.app = tier.mapView
    /\ tier.mapView = tier.risk
    /\ tier.value.type \in {"undefined", "number"} =>
         tier.app = IF Unknown(tier.value) THEN "yellow"
                    ELSE TierOfKnown(ToNumber(tier.value))
\* ------------------------------------------------------------------------
\* C23  MapView issues a flood-zone request only as the effect of a change
\* of the selected park: a step issues a request exactly when it changes
\* the selection to a park whose latitude and longitude are finite, it
\* then issues one request, for the coordinates of that park; a step that
\* clears the selection, selects a park without finite coordinates or
\* resumes an earlier fetchOverlay issues none.
\* ------------------------------------------------------------------------
HasFiniteCoordinates(p) ==
  p # NoPark /\ IsFinite(Number(p.latitude)) /\ IsFinite(Number(p.longitude))

C23_OneRequestPerSelection ==
  [][ IF selectedPark' # selectedPark /\ HasFiniteCoordinates(selectedPark')
      THEN /\ Len(runs') = Len(runs) + 1
           /\ runs'[Len(runs')].at = "fetch"
           /\ runs'[Len(runs')].lat = Number(selectedPark'.latitude)
           /\ runs'[Len(runs')].lon = Number(selectedPark'.longitude)
      ELSE Len(runs') = Len(runs) ]_vars

\* Two requests were issued, for A and for B; the park without a latitude
\* is selected now and the selection was cleared in between or after.
C23_Witness ==
  /\ Len(runs) = 2
  /\ runs[1].lat = Number(ParkA.latitude)
  /\ runs[2].lat = Number(ParkB.latitude)
  /\ selectedPark = ParkX
  /\ runs[2].cancelled
\* ------------------------------------------------------------------------
\* C21  In the restarted front end, as long as the user has selected no
\* park from the map or the list, selectedId is null (also after the parks
\* have loaded) and ZoomToSelection has not called setView.
\* ------------------------------------------------------------------------
UserSelections == trace.fromMap + trace.fromList

C21_NoZoomBeforeSelection ==
  (app = "restart" /\ UserSelections = 0) =>
    /\ selection = "null"
    /\ calls.setView = 0

\* The parks have loaded, MapView is mounted and its effects have run, the
\* user has zoomed the map but selected nothing.
C21_Witness ==
  /\ app = "restart"
  /\ fetchParks = "resolved"
  /\ Len(parks) > 0
  /\ Mounted(committed)
  /\ Quiescent
  /\ didFit
  /\ UserSelections = 0
  /\ trace.events > 0
  /\ map.zoom = 14
\* ------------------------------------------------------------------------
\* C24  In the earlier front end, whenever every render and effect that
\* was due has run, the marker of the selected park carries the highlighted
\* style and every other marker the default style, whatever map clicks,
\* list clicks and changes of the sort mode came before.
\* ------------------------------------------------------------------------
C24_SelectedMarkerHighlighted ==
  (app = "legacy" /\ Mounted(committed) /\ Quiescent) =>
    \A id \in DOMAIN markerRefs :
      markerRefs[id] = IF id = selection THEN "highlight" ELSE "default"

\* Once every render and effect has run no marker but that of the selected
\* park is highlighted, and before the first event of the user the marker
\* of the selected park is.
C24_OnlySelectedHighlighted ==
  (app = "legacy" /\ Mounted(committed) /\ Quiescent) =>
    /\ \A id \in DOMAIN markerRefs : markerRefs[id] = "highlight" => id = selection
    /\ (trace.events = 0 /\ selection # "null") => markerRefs[selection] = "highlight"
\* ------------------------------------------------------------------------
\* C25  In both revisions of App the list is scrolled to the selected item
\* only by the scroll effect running on a selection that came from the
\* map; the step scrolls once and resets selectionSource to null.  The
\* list has been scrolled at most once per selection from the map, so a
\* selection from the list never scrolls it; and once every render and
\* effect has run, it has been scrolled exactly once per selection from the
\* map and selectionSource is no longer "map".
\* ------------------------------------------------------------------------
C25_ScrollOnlyForMapSelection ==
  [][ /\ calls'.scrollIntoView # calls.scrollIntoView =>
           /\ selectionSource = "map"
           /\ selectionSource' = "null"
           /\ calls'.scrollIntoView = calls.scrollIntoView + 1
      /\ calls'.scrollIntoView <= trace'.fromMap
      /\ Quiescent' =>
           /\ selectionSource' # "map"
           /\ calls'.scrollIntoView = trace'.fromMap ]_vars

\* Two selections from the map and one from the list, the list scrolled
\* twice.
C25_Witness ==
  /\ Quiescent
  /\ trace.fromMap = 2
  /\ trace.fromList = 1
  /\ calls.scrollIntoView = 2
  /\ selectionSource = "list"
\* ------------------------------------------------------------------------
\* C26  When ZoomToSelection runs for a selected park with finite
\* coordinates it calls setView once, which centres the map on the park and
\* sets the zoom to the larger of the current zoom and 11, so the zoom is
\* never lowered; when it runs for a park without finite coordinates the
\* view is as before and setView is not called.
\* ------------------------------------------------------------------------
ZoomToSelectionRuns ==
  /\ effects # <<>>
  /\ Head(effects) = "ZoomToSelection"
  /\ effects' = Tail(effects)

C26_ZoomNeverLowered ==
  [][ (ZoomToSelectionRuns /\ selection # "null") =>
        LET p == Find(parks, selection)
        IN  IF HasFiniteCoordinates(p)
            THEN /\ map'.center = [lat |-> Number(p.latitude), lon |-> Number(p.longitude)]
                 /\ map'.zoom = 11 \/ map'.zoom = map.zoom
                 /\ map'.zoom >= 11
                 /\ map'.zoom >= map.zoom
                 /\ calls'.setView = calls.setView + 1
            ELSE /\ map' = map
                 /\ calls' = calls ]_vars

\* The user zoomed to 14 and selected A, which centred the map on A at
\* zoom 14; then the park without a latitude was selected from the list.
C26_Witness ==
  /\ app = "restart"
  /\ Quiescent
  /\ selection = ParkX.id
  /\ calls.setView = 1
  /\ map.zoom = 14
  /\ map.center = [lat |-> Number(ParkA.latitude), lon |-> Number(ParkA.longitude)]
\* ------------------------------------------------------------------------
\* C27  In the earlier front end flyTo is not called for the first value of
\* selectedPark that MapView sees after the load (the default selection),
\* and is called once for every later change of selectedPark: a step calls
\* flyTo only when the effect on selectedPark runs after the first value
\* was seen, and once every render and effect has run flyTo has been called
\* once for each change of the selection but the first.
\* ------------------------------------------------------------------------
C27_NoFlyOnDefaultSelection ==
  [][ app = "legacy" =>
        /\ calls'.flyTo # calls.flyTo =>
             /\ effects # <<>>
             /\ Head(effects) = "onSelectedPark"
             /\ ~firstSelectionRef
             /\ calls'.flyTo = calls.flyTo + 1
             /\ map'.zoom = 12
        /\ firstSelectionRef' => calls'.flyTo = 0
        /\ (Quiescent' /\ Mounted(committed') /\ trace'.changes > 0) =>
             calls'.flyTo = trace'.changes - 1 ]_vars

\* The default selection and two changes by the user: flyTo was called
\* twice.
C27_Witness ==
  /\ app = "legacy"
  /\ Quiescent
  /\ Mounted(committed)
  /\ trace.changes = 3
  /\ calls.flyTo = 2
  /\ ~firstSelectionRef
\* ------------------------------------------------------------------------
\* C28  In the earlier front end the load of the parks always settles the
\* loading flag: loading becomes false in the end, whether the query
\* succeeds or fails, and is false from the moment the query has settled;
\* error is set exactly when the load has failed; and the map of MapView
\* exists only in states in which loading is false and error is null.
\* ------------------------------------------------------------------------
C28_LoadingSettles ==
  /\ (app = "legacy" /\ loading) ~> ~loading
  /\ [](app = "legacy" =>
          /\ loading <=> fetchParks = "pending"
          /\ error <=> fetchParks = "rejected"
          /\ (Mounted(committed) \/ map.ready) => (~loading /\ ~error))

\* The load has failed: the message is set, loading is false and MapView
\* was never mounted.
C28_Witness ==
  /\ app = "legacy"
  /\ fetchParks = "rejected"
  /\ error
  /\ ~loading
  /\ Quiescent
  /\ ~Mounted(committed)
  /\ ~map.ready
\* ------------------------------------------------------------------------
\* C31  Every response carries the three cross-origin headers.  The public
\* Cache-Control header is on a response exactly when the request passed
\* the validation of lat and lon: it is on every 200 and every 502
\* response and on no 400 and no 204 response.  An OPTIONS request is
\* answered 204 whatever its lat and lon are, with no upstream query.
\* ------------------------------------------------------------------------
PassedValidation ==
  /\ req.method # "OPTIONS"
  /\ IsFinite(Number(req.query.lat))
  /\ IsFinite(Number(req.query.lon))

C31_CacheControlAfterValidation ==
  res.sent > 0 =>
    /\ CorsHeaders \subseteq res.headers
    /\ CacheHeader \in res.headers <=> PassedValidation
    /\ res.status \in {200, 502} => CacheHeader \in res.headers
    /\ res.status \in {204, 400} => CacheHeader \notin res.headers
    /\ req.method = "OPTIONS" => (res.status = 204 /\ issued = <<>>)

\* An upstream failure answered 502, with the Cache-Control header.
C31_Witness ==
  /\ pc = "done"
  /\ res.sent = 1
  /\ res.status = 502
  /\ CacheHeader \in res.headers
  /\ received # <<>>
\* ------------------------------------------------------------------------
\* The ladder of envelopes of one point.  The handler is invoked with the
\* decimal text of a latitude and a longitude in whole degrees and every
\* upstream query is answered with an empty feature collection, so that
\* the handler builds the envelope of every radius.
\* ------------------------------------------------------------------------
Longitudes == {-180, -82, 0, 97, 180}

RECURSIVE NatText(_)
NatText(n) ==
  IF n < 10 THEN <<Digits[n + 1]>>
  ELSE Append(NatText(n \div 10), Digits[(n % 10) + 1])

\* The decimal text of an integer, as it stands in the query string.
DecimalText(n) == IF n < 0 THEN <<"-">> \o NatText(0 - n) ELSE NatText(n)

EnvelopeNext ==
  \/ \E la \in Latitudes, lo \in Longitudes :
       Invoke("GET", [lat |-> Str(DecimalText(la)), lon |-> Str(DecimalText(lo))])
  \/ FetchResolves(200)
  \/ JsonResolves(FC(<<>>))

EnvelopeInit == Init /\ impl = "ladder"

EnvelopeSpec == EnvelopeInit /\ [][EnvelopeNext]_vars

\* ------------------------------------------------------------------------
\* C32  For a fixed point the envelopes of the ladder are rectangles
\* centred on the point, each strictly containing the envelope of every
\* smaller radius, and the width and the height of an envelope are to those
\* of another as their radii are.
\* ------------------------------------------------------------------------
Envelopes == {k \in 1..Len(issued) : issued[k].geometryType = "esriGeometryEnvelope"}

Xmin(k) == issued[k].geometry.coords[1]
Ymin(k) == issued[k].geometry.coords[2]
Xmax(k) == issued[k].geometry.coords[3]
Ymax(k) == issued[k].geometry.coords[4]
\* How far the envelope reaches from the point to the west, east, south
\* and north.
West(k) == RatSub(Rat(lon.v, 1), Xmin(k))
East(k) == RatSub(Xmax(k), Rat(lon.v, 1))
South(k) == RatSub(Rat(lat.v, 1), Ymin(k))
North(k) == RatSub(Ymax(k), Rat(lat.v, 1))
RadiusOf(k) == issued[k].geometry.radius_m

\* a < b for fractions, over their least common denominator
Less(a, b) ==
  LET g == GCD(a.den, b.den)
  IN  a.num * (b.den \div g) < b.num * (a.den \div g)

C32_EnvelopesNested ==
  /\ \A k \in Envelopes :
       /\ West(k).num > 0
       /\ South(k).num > 0
       /\ West(k) = East(k)
       /\ South(k) = North(k)
  /\ \A i \in Envelopes, j \in Envelopes :
       RadiusOf(i) < RadiusOf(j) =>
         /\ Less(West(i), West(j)) /\ Less(East(i), East(j))
         /\ Less(South(i), South(j)) /\ Less(North(i), North(j))
         /\ Times(East(i), RadiusOf(j)) = Times(East(j), RadiusOf(i))
         /\ Times(North(i), RadiusOf(j)) = Times(North(j), RadiusOf(i))

\* The three envelopes of a point at latitude 80, where the longitude
\* offset is the latitude offset, have been queried.
C32_Witness ==
  /\ pc = "done"
  /\ lat = Fin(80)
  /\ lon = Fin(0 - 82)
  /\ Cardinality(Envelopes) = 3
  /\ {RadiusOf(k) : k \in Envelopes} = {300, 1000, 3000}
====
